---- MODULE Spec2Model ----
(***************************************************************************)
(* A model of the Pinak server (src/pinak-server/index.js): one room of    *)
(* the registry `games`, its socket handlers, the run validator and        *)
(* normalizer, the mandatory-meld gate and the scoring engine.             *)
(*                                                                         *)
(* Representation.  A card is the record the code builds in buildDeck; the *)
(* closed pile, the open pile and the opened runs are the arrays of the    *)
(* code.  A hand is kept as the set of its cards: the code reads a hand's  *)
(* order only through the index of discard, which here names the card at   *)
(* that place of the hand listed by ascending id.  The random shuffle of   *)
(* buildDeck is a choice among NumShuffles orders of the deck.             *)
(***************************************************************************)
EXTENDS Integers, Sequences, FiniteSets, TLC

VARIABLES
  g,      \* games[room]: the one room followed
  sent,   \* what the server sent in answer to the last command
  uuids,  \* the decks buildDeck has built so far
  scope,  \* what the clients of this behaviour may ask for (never changes)
  probe   \* the argument and result of a pure function under test

vars == <<g, sent, uuids, scope, probe>>

(* ------------------------------ bounds -------------------------------- *)

\* suits of the modelled deck (the code deals 4)
NumSuits == 1
\* non-wildcard ranks of the modelled deck, taken from the top of ORDER
NumReal == 5
\* people (one socket and one persistent id each) who may create or join
NumSockets == 2
\* decks built in one behaviour: each createRoom, continueGame and newGame
\* that is accepted builds one
MaxDecks == 1
\* orders the shuffle of buildDeck may produce
NumShuffles == 3
\* orders the shuffle may produce for the deck of a later round
NumReshuffles == 1
\* card ids a client may list in one openRun / addToRun
MaxIds == 4
\* the score the leading player or team has when a game is taken up in a
\* later round
SeedScore == 138
\* cards of a hand handed to the pure functions
MaxProbe == 4
\* suits and non-wildcard ranks (from the bottom of ORDER) of those cards
NumProbeSuits == 2
NumProbeRanks == 4
\* non-wildcard ranks (from the top of ORDER) of the deck of a round followed
\* for its melds, and the orders that deck may come in
NumMeldReal == 6
NumMeldOrders == 1

(* ----------------------------- constants ------------------------------ *)

SUITS == <<"S", "H", "D", "C">>

ORDER == <<"3", "4", "5", "6", "7", "8", "9", "10", "J", "Q", "K", "A">>

\* INDEX[v]: the 0-based place of v in ORDER
INDEX(v) == (CHOOSE i \in 1..Len(ORDER) : ORDER[i] = v) - 1

WIN_SCORE == 151

\* cards dealt to a player; the code deals 9 of 52, the model scales it
\* with the deck
HAND_SIZE == 2

\* JavaScript's null / undefined where a number is expected
null == -1

(* ------------------------------ helpers ------------------------------- *)

Min(a, b) == IF a <= b THEN a ELSE b

Range(s) == {s[i] : i \in DOMAIN s}

\* Array.prototype.sort((a, b) => a - b) on numbers
RECURSIVE SortNum(_)
SortNum(s) ==
  IF s = <<>> THEN <<>>
  ELSE LET i == CHOOSE k \in DOMAIN s : \A l \in DOMAIN s : s[k] <= s[l]
       IN <<s[i]>> \o SortNum(SubSeq(s, 1, i - 1) \o SubSeq(s, i + 1, Len(s)))

\* a set listed by ascending id: the order a hand index refers to
RECURSIVE ById(_)
ById(S) ==
  IF S = {} THEN <<>>
  ELSE LET c == CHOOSE x \in S : \A y \in S : x.id <= y.id
       IN <<c>> \o ById(S \ {c})

\* flat(): the cards of a list of runs, one after the other
RECURSIVE Flat(_)
Flat(sets) == IF sets = <<>> THEN <<>> ELSE Head(sets) \o Flat(Tail(sets))

(* ------------------------------- deck --------------------------------- *)

\* the values buildDeck loops over, in its order
DECK_VALUES == <<"A", "2", "3", "4", "5", "6", "7", "8", "9", "10", "J", "Q", "K">>

\* the values of the modelled deck: the wildcard and the NumReal top ranks
InDeck(v) == v = "2" \/ INDEX(v) >= Len(ORDER) - NumReal

DeckValues == SelectSeq(DECK_VALUES, InDeck)

DeckSuits == SubSeq(SUITS, 1, Min(NumSuits, Len(SUITS)))

DeckSize == Len(DeckSuits) * Len(DeckValues)

\* the deck before it is shuffled: suit by suit, value by value; uuid()
\* gives every deck fresh ids, here deck number n (0, 1, ...) numbers its
\* cards from n * DeckSize + 1
UnshuffledDeck(n) ==
  [k \in 1..DeckSize |->
     LET si == (k - 1) \div Len(DeckValues) + 1
         vi == ((k - 1) % Len(DeckValues)) + 1
     IN [id |-> n * DeckSize + k,
         value |-> DeckValues[vi],
         suit |-> DeckSuits[si],
         points |-> IF DeckValues[vi] = "A" \/ DeckValues[vi] = "2" THEN 2 ELSE 1]]

\* the order number r of a deck: the deck cut after r cards, and dealt from
\* the other end when r is odd
Shuffled(deck, r) ==
  LET cut == [k \in DOMAIN deck |-> deck[((k - 1 + r) % Len(deck)) + 1]]
  IN IF r % 2 = 0 THEN cut ELSE [k \in DOMAIN cut |-> cut[Len(cut) + 1 - k]]

\* buildDeck: the orders in which the n-th deck may come out of the shuffle
buildDeck(n) == {Shuffled(UnshuffledDeck(n), r) : r \in 0..(scope.orders - 1)}

\* the placeholder pushed when normalizeRun pops an empty joker pool
Undefined == [id |-> null, value |-> "?", suit |-> "?", points |-> 0]

IsJoker(c) == c.value = "2"

IsReal(c) == c.value # "2"

(* -------------------------- run validation ---------------------------- *)

RECURSIVE GapsOk(_, _)
\* the loop of validRun over the sorted indices: FALSE on a repeated rank
\* (diff < 0), else the gaps summed up (-1 stands for the early return)
GapsOk(idx, i) ==
  IF i > Len(idx) THEN 0
  ELSE LET diff == idx[i] - idx[i - 1] - 1
           rest == GapsOk(idx, i + 1)
       IN IF diff < 0 \/ rest < 0 THEN -1 ELSE diff + rest

validRunNoJokerCap(cards) ==
  /\ Len(cards) >= 3
  /\ LET real == SelectSeq(cards, IsReal)
         jokers == Len(cards) - Len(real)
     IN /\ Len(real) >= 2
        /\ \A i \in DOMAIN real : real[i].suit = real[1].suit
        /\ LET idx == SortNum([i \in DOMAIN real |-> INDEX(real[i].value)])
               gaps == GapsOk(idx, 2)
           IN gaps >= 0 /\ gaps <= jokers

validRunNoGapCheck(cards) ==
  /\ Len(cards) >= 3
  /\ LET real == SelectSeq(cards, IsReal)
         jokers == Len(cards) - Len(real)
     IN /\ jokers <= 1
        /\ Len(real) >= 2
        /\ \A i \in DOMAIN real : real[i].suit = real[1].suit

validRun(cards) ==
  /\ Len(cards) >= 3
  /\ LET real == SelectSeq(cards, IsReal)
         jokers == Len(cards) - Len(real)
     IN /\ jokers <= 1
        /\ Len(real) >= 2
        /\ \A i \in DOMAIN real : real[i].suit = real[1].suit
        /\ LET idx == SortNum([i \in DOMAIN real |-> INDEX(real[i].value)])
               gaps == GapsOk(idx, 2)
           IN gaps >= 0 /\ gaps <= jokers

(* ------------------------- run normalization -------------------------- *)

\* sort((a, b) => INDEX[a.value] - INDEX[b.value]), stable
RECURSIVE SortByIndex(_)
SortByIndex(s) ==
  IF s = <<>> THEN <<>>
  ELSE LET i == CHOOSE k \in DOMAIN s :
                  /\ \A l \in DOMAIN s : INDEX(s[k].value) <= INDEX(s[l].value)
                  /\ \A l \in 1..(k - 1) : INDEX(s[l].value) # INDEX(s[k].value)
       IN <<s[i]>> \o SortByIndex(SubSeq(s, 1, i - 1) \o SubSeq(s, i + 1, Len(s)))

\* the slot walk of normalizeRun from index i to max: the real card of a
\* slot (the last one with that index: the Map keeps the last), else a
\* joker popped from the end of the pool; the jokers left over follow
RECURSIVE Slots(_, _, _, _)
Slots(real, pool, i, max) ==
  IF i > max
    THEN [k \in 1..Len(pool) |-> pool[Len(pool) + 1 - k]]
    ELSE LET at == {k \in DOMAIN real : INDEX(real[k].value) = i}
         IN IF at # {}
              THEN <<real[CHOOSE k \in at : \A l \in at : l <= k]>>
                     \o Slots(real, pool, i + 1, max)
              ELSE IF pool = <<>>
                     THEN <<Undefined>> \o Slots(real, pool, i + 1, max)
                     ELSE <<pool[Len(pool)]>>
                            \o Slots(real, SubSeq(pool, 1, Len(pool) - 1), i + 1, max)

normalizeRunJokerLast(cards) ==
  LET jokers == SelectSeq(cards, IsJoker)
      real == SortByIndex(SelectSeq(cards, IsReal))
  IN IF Len(real) = 0 THEN cards
     ELSE real \o [k \in DOMAIN jokers |-> [jokers[k] EXCEPT !.suit = real[1].suit]]

normalizeRunDropsSpare(cards) ==
  LET jokers == SelectSeq(cards, IsJoker)
      real == SortByIndex(SelectSeq(cards, IsReal))
  IN IF Len(real) = 0 THEN cards
     ELSE LET suit == real[1].suit
              min == INDEX(real[1].value)
              max == INDEX(real[Len(real)].value)
              out == SubSeq(Slots(real, jokers, min, max), 1, max - min + 1)
          IN [k \in DOMAIN out |->
                IF out[k].value = "2" THEN [out[k] EXCEPT !.suit = suit]
                ELSE out[k]]

normalizeRun(cards) ==
  LET jokers == SelectSeq(cards, IsJoker)
      real == SortByIndex(SelectSeq(cards, IsReal))
  IN IF Len(real) = 0 THEN cards
     ELSE LET suit == real[1].suit
              out == Slots(real, jokers, INDEX(real[1].value),
                           INDEX(real[Len(real)].value))
          IN [k \in DOMAIN out |->
                IF out[k].value = "2" THEN [out[k] EXCEPT !.suit = suit]
                ELSE out[k]]

(* ------------------------- house-rule helpers ------------------------- *)

\* the ORDER indices of the real cards of one suit in a hand, sorted
SuitIdx(hand, suit) ==
  SortNum([k \in 1..Cardinality({c \in hand : IsReal(c) /\ c.suit = suit}) |->
             INDEX(ById({c \in hand : IsReal(c) /\ c.suit = suit})[k].value)])

HandSuits(hand) == {c.suit : c \in {x \in hand : IsReal(x)}}

RECURSIVE Streak(_, _, _)
\* the streak loop of hasPureRun from place i with the streak so far
Streak(arr, i, streak) ==
  IF i > Len(arr) THEN FALSE
  ELSE LET s == IF arr[i] = arr[i - 1] + 1 THEN streak + 1
                ELSE IF arr[i] # arr[i - 1] THEN 1 ELSE streak
       IN s >= 3 \/ Streak(arr, i + 1, s)

hasPureRun(hand) ==
  /\ Cardinality(hand) >= 3
  /\ \E suit \in HandSuits(hand) : Streak(SuitIdx(hand, suit), 2, 1)

\* the players whose runs `me` may add to
Owners(gm, me) ==
  IF gm.teamMode
    THEN SelectSeq(gm.players, LAMBDA p : p.team = me.team)
    ELSE <<me>>

HasJoker(run) == \E k \in DOMAIN run : run[k].value = "2"

canAddToAnyRun(gm, me) ==
  /\ me.opened
  /\ me.hand # {}
  /\ \E o \in DOMAIN Owners(gm, me) :
       \E runIndex \in DOMAIN Owners(gm, me)[o].openedSets :
         LET original == Owners(gm, me)[o].openedSets[runIndex]
             hadJoker == HasJoker(original)
         IN /\ Len(original) >= 3
            /\ \/ \E card \in me.hand :
                    /\ ~(card.value = "2" /\ ~hadJoker)
                    /\ validRun(Append(original, card))
               \/ /\ ~hadJoker
                  /\ \E j \in {c \in me.hand : IsJoker(c)} :
                       \E r \in {c \in me.hand : IsReal(c)} :
                         validRun(original \o <<j, r>>)

RECURSIVE GapSum(_, _, _)
\* gaps accumulated by the inner loop of canOpenAnyRunFromHand from i + 1 to j
GapSum(idx, i, j) ==
  IF j <= i THEN 0 ELSE GapSum(idx, i, j - 1) + (idx[j] - idx[j - 1] - 1)

canOpenAnyRunFromHand(hand) ==
  /\ Cardinality(hand) >= 3
  /\ LET jokers == Cardinality({c \in hand : IsJoker(c)})
     IN \E suit \in HandSuits(hand) :
          LET idx == SuitIdx(hand, suit)
              n == Len(idx)
          IN /\ n >= 2
             /\ \E i \in 1..n : \E j \in (i + 1)..n :
                  \* the loop reaches j only if no earlier j broke out of it
                  /\ \A k \in (i + 1)..j : GapSum(idx, i, k) <= jokers
                  /\ j - i + 1 >= 2
                  /\ j - i + 1 + jokers >= 3

canAddAnyCardToAllowedRuns(gm, me) ==
  /\ me.opened
  /\ me.hand # {}
  /\ \E o \in DOMAIN Owners(gm, me) :
       \E runIndex \in DOMAIN Owners(gm, me)[o].openedSets :
         LET run == Owners(gm, me)[o].openedSets[runIndex]
             runHasJoker == HasJoker(run)
         IN \E card \in me.hand :
              /\ ~(card.value = "2" /\ ~runHasJoker)
              /\ validRun(Append(run, card))

\* the first of the two declarations of mustPlayAllMeldsNow (lines 190-206);
\* the second one replaces it when the file is loaded
mustPlayAllMeldsNowFirst(gm, p) ==
  /\ Len(gm.closed) = 0
  /\ p.canDiscard
  /\ (canAddToAnyRun(gm, p) \/ hasPureRun(p.hand))

mustPlayAllMeldsNow(gm, p) ==
  /\ Len(gm.closed) = 0
  /\ Len(gm.open) # 0
  /\ p.canDiscard
  /\ (canOpenAnyRunFromHand(p.hand) \/ canAddAnyCardToAllowedRuns(gm, p))

(* ---------------------------- game state ------------------------------ *)

\* the sockets that may connect; socket s belongs to the person whose
\* persistent id is PidOf(s)
Sockets == 1..NumSockets

PidOf(s) == 100 + s

\* the room cap of joinRoom
MAX_PLAYERS == 4

\* games[room] before createRoom
NoGame ==
  [exists |-> FALSE, teamMode |-> FALSE, dealerIndex |-> 0,
   teamScores |-> <<0, 0>>, players |-> <<>>, closed |-> <<>>, open |-> <<>>,
   turn |-> 0, roundOver |-> FALSE, winner |-> null, winnerPid |-> null,
   gameOver |-> FALSE]

\* the player object createRoom and joinRoom push
NewPlayer(s, team, hand) ==
  [id |-> s, pid |-> PidOf(s), team |-> team, hand |-> hand,
   openedSets |-> <<>>, opened |-> FALSE, mustDiscard |-> FALSE,
   canDiscard |-> FALSE, noDiscardCardId |-> null, score |-> 0]

\* g.players[g.turn], the players being numbered from 0 in the code
AtTurn(gm) == gm.players[gm.turn + 1]

HasTurn(gm) == gm.turn + 1 \in DOMAIN gm.players

\* g.players.find(pp => pp.id === id): the place of that player, 0 if none
FindById(gm, id) ==
  IF \E k \in DOMAIN gm.players : gm.players[k].id = id
    THEN CHOOSE k \in DOMAIN gm.players :
           /\ gm.players[k].id = id
           /\ \A l \in 1..(k - 1) : gm.players[l].id # id
    ELSE 0

\* hand.find(c => c.id === id)
FindCard(hand, id) ==
  IF \E c \in hand : c.id = id THEN CHOOSE c \in hand : c.id = id ELSE Undefined

\* pile.splice(0, n): the cards taken, and the pile left
Taken(pile, n) == SubSeq(pile, 1, Min(n, Len(pile)))

Left(pile, n) == SubSeq(pile, Min(n, Len(pile)) + 1, Len(pile))

\* pile.pop(): the pile without its last card
Popped(pile) == SubSeq(pile, 1, Len(pile) - 1)

(* ------------------------------ scoring ------------------------------- *)

RECURSIVE Points(_)
\* reduce((s, c) => s + (c.points || 0), 0)
Points(cards) == IF cards = <<>> THEN 0 ELSE Head(cards).points + Points(Tail(cards))

openedPts(p) == Points(Flat(p.openedSets))

handPts(p) == Points(ById(p.hand))

\* the pid scoreRound takes for the winner
ScoreWinnerPid(gm) ==
  IF gm.winnerPid # null THEN gm.winnerPid
  ELSE IF gm.winner # null /\ FindById(gm, gm.winner) # 0
         THEN gm.players[FindById(gm, gm.winner)].pid
         ELSE null

isWinner(gm, p) ==
  IF ScoreWinnerPid(gm) # null THEN p.pid = ScoreWinnerPid(gm) ELSE p.id = gm.winner

\* the change scoreRound computes for one player
PlayerDeltaNoDoubling(gm, p) ==
  IF isWinner(gm, p) THEN openedPts(p) + 10
  ELSE openedPts(p) - handPts(p)

PlayerDelta(gm, p) ==
  IF isWinner(gm, p) THEN openedPts(p) + 10
  ELSE IF ~p.opened THEN (openedPts(p) - handPts(p)) * 2
       ELSE openedPts(p) - handPts(p)

RECURSIVE TeamDeltaAnyTeam(_, _, _)
TeamDeltaAnyTeam(gm, team, k) ==
  IF k > Len(gm.players) THEN 0
  ELSE PlayerDelta(gm, gm.players[k]) + TeamDeltaAnyTeam(gm, team, k + 1)

RECURSIVE TeamDelta(_, _, _)
\* teamDelta[team] after the forEach over the players from place k on
TeamDelta(gm, team, k) ==
  IF k > Len(gm.players) THEN 0
  ELSE (IF gm.players[k].team = team THEN PlayerDelta(gm, gm.players[k]) ELSE 0)
         + TeamDelta(gm, team, k + 1)

scoreRound(gm) ==
  IF ~gm.teamMode
    THEN [gm EXCEPT !.players =
            [k \in DOMAIN gm.players |->
               [gm.players[k] EXCEPT !.score = @ + PlayerDelta(gm, gm.players[k])]]]
    ELSE LET ts == <<gm.teamScores[1] + TeamDelta(gm, 0, 1),
                     gm.teamScores[2] + TeamDelta(gm, 1, 1)>>
         IN [gm EXCEPT !.teamScores = ts,
                       !.players =
                         [k \in DOMAIN gm.players |->
                            IF gm.players[k].team \in {0, 1}
                              THEN [gm.players[k] EXCEPT !.score = ts[gm.players[k].team + 1]]
                              ELSE gm.players[k]]]

checkWinStrict(gm) ==
  IF ~gm.teamMode
    THEN IF \E k \in DOMAIN gm.players : gm.players[k].score > WIN_SCORE
           THEN [gm EXCEPT !.gameOver = TRUE] ELSE gm
    ELSE IF gm.teamScores[1] > WIN_SCORE \/ gm.teamScores[2] > WIN_SCORE
           THEN [gm EXCEPT !.gameOver = TRUE] ELSE gm

checkWin(gm) ==
  IF ~gm.teamMode
    THEN IF \E k \in DOMAIN gm.players : gm.players[k].score >= WIN_SCORE
           THEN [gm EXCEPT !.gameOver = TRUE] ELSE gm
    ELSE IF gm.teamScores[1] >= WIN_SCORE \/ gm.teamScores[2] >= WIN_SCORE
           THEN [gm EXCEPT !.gameOver = TRUE] ELSE gm

\* syncTeams, which emit runs before every broadcast: in team mode every
\* player's score is overwritten by the score of the player's team
syncTeams(gm) ==
  IF ~gm.teamMode THEN gm
  ELSE [gm EXCEPT !.players =
          [k \in DOMAIN gm.players |->
             IF gm.players[k].team \in {0, 1}
               THEN [gm.players[k] EXCEPT !.score = gm.teamScores[gm.players[k].team + 1]]
               ELSE gm.players[k]]]

\* the room after emit(room)
emit(gm) == syncTeams(gm)

maskHandKeepsSuit(hand) ==
  [k \in 1..Cardinality(hand) |-> [value |-> "?", suit |-> ById(hand)[k].suit]]

\* hand.map(() => ({ value: "?", suit: "?" }))
maskHand(hand) == [k \in 1..Cardinality(hand) |-> [value |-> "?", suit |-> "?"]]

\* the gameState emit(room) sends to the socket id: every field of the room,
\* with the players' hands masked but the recipient's own
gameState(gm, id) ==
  [gm EXCEPT !.players =
     [k \in DOMAIN gm.players |->
        [gm.players[k] EXCEPT !.hand = IF gm.players[k].id = id
                                         THEN ById(gm.players[k].hand)
                                         ELSE maskHand(gm.players[k].hand)]]]

(* --------------------------- create / join ---------------------------- *)

\* why createRoom returns early ("ok": it does not)
createRoomCheck(gm, teamMode, team) ==
  IF gm.exists THEN "roomExists"
  ELSE IF teamMode /\ team # 0 /\ team # 1 THEN "noTeam"
  ELSE "ok"

\* games[room] as createRoom builds it from a shuffled deck: the first
\* HAND_SIZE cards to the creator, the last card face up, the rest closed
createRoomApply(s, teamMode, team, deck) ==
  [exists |-> TRUE, teamMode |-> teamMode, dealerIndex |-> 0,
   teamScores |-> <<0, 0>>,
   players |-> <<NewPlayer(s, IF teamMode THEN team ELSE null,
                           Range(Taken(deck, HAND_SIZE)))>>,
   closed |-> Popped(Left(deck, HAND_SIZE)),
   open |-> <<deck[Len(deck)]>>,
   turn |-> (0 + 1) % 1, roundOver |-> FALSE, winner |-> null,
   winnerPid |-> null, gameOver |-> FALSE]

teamCount(gm, team) ==
  Cardinality({k \in DOMAIN gm.players : gm.players[k].team = team})

\* the place of the player joinRoom finds by persistent id, 0 if none
FindByPid(gm, pid) ==
  IF \E k \in DOMAIN gm.players : gm.players[k].pid = pid
    THEN CHOOSE k \in DOMAIN gm.players :
           /\ gm.players[k].pid = pid
           /\ \A l \in 1..(k - 1) : gm.players[l].pid # pid
    ELSE 0

joinRoomCheck(gm, s, team) ==
  IF ~gm.exists \/ Len(gm.players) >= MAX_PLAYERS THEN "noRoomOrFull"
  ELSE IF FindByPid(gm, PidOf(s)) # 0 THEN "ok"
  ELSE IF gm.teamMode /\ team # 0 /\ team # 1 THEN "noTeam"
  ELSE IF gm.teamMode /\ teamCount(gm, team) >= 2 THEN "teamFull"
  ELSE "ok"

joinRoomApply(gm, s, team) ==
  IF FindByPid(gm, PidOf(s)) # 0
    THEN [gm EXCEPT !.players[FindByPid(gm, PidOf(s))].id = s]
    ELSE LET players == Append(gm.players,
                               NewPlayer(s, IF gm.teamMode THEN team ELSE null,
                                         Range(Taken(gm.closed, HAND_SIZE))))
             first == /\ Len(gm.players) = 1
                      /\ Len(players) >= 2
                      /\ \A k \in DOMAIN players :
                           ~players[k].canDiscard /\ ~players[k].mustDiscard
                      /\ ~gm.roundOver
                      /\ ~gm.gameOver
         IN [gm EXCEPT !.players = players,
                       !.closed = Left(@, HAND_SIZE),
                       !.turn = IF first THEN (gm.dealerIndex + 1) % Len(players) ELSE @]

(* ------------------------------- draws -------------------------------- *)

turnCheckIgnoresOver(gm, s) ==
  IF ~gm.exists \/ ~HasTurn(gm) THEN "noRoom"
  ELSE IF AtTurn(gm).id # s THEN "notYourTurn"
  ELSE "ok"

\* the checks every turn command starts with
turnCheck(gm, s) ==
  IF ~gm.exists \/ ~HasTurn(gm) THEN "noRoom"
  ELSE IF AtTurn(gm).id # s THEN "notYourTurn"
  ELSE IF gm.roundOver \/ gm.gameOver THEN "over"
  ELSE "ok"

drawClosedCheck(gm, s) ==
  IF turnCheck(gm, s) # "ok" THEN turnCheck(gm, s)
  ELSE IF AtTurn(gm).canDiscard THEN "alreadyDrew"
  ELSE IF Len(gm.closed) = 0 THEN "closedEmpty"
  ELSE "ok"

drawClosedApplyKeepsRestriction(gm) ==
  [gm EXCEPT !.closed = Popped(@),
             !.players[gm.turn + 1] =
               [@ EXCEPT !.hand = @ \cup {gm.closed[Len(gm.closed)]},
                         !.mustDiscard = TRUE,
                         !.canDiscard = TRUE]]

drawClosedApply(gm) ==
  [gm EXCEPT !.closed = Popped(@),
             !.players[gm.turn + 1] =
               [@ EXCEPT !.hand = @ \cup {gm.closed[Len(gm.closed)]},
                         !.mustDiscard = TRUE,
                         !.canDiscard = TRUE, !.noDiscardCardId = null]]

drawOpenCheckAgain(gm, s, count) ==
  IF turnCheck(gm, s) # "ok" THEN turnCheck(gm, s)
  ELSE IF count = 0 \/ count < 1 THEN "badCount"
  ELSE IF count > Len(gm.open) THEN "badCount"
  ELSE "ok"

drawOpenCheck(gm, s, count) ==
  IF turnCheck(gm, s) # "ok" THEN turnCheck(gm, s)
  ELSE IF AtTurn(gm).canDiscard THEN "alreadyDrew"
  ELSE IF count = 0 \/ count < 1 THEN "badCount"
  ELSE IF count > Len(gm.open) THEN "badCount"
  ELSE "ok"

drawOpenApplyFromBottom(gm, count) ==
  LET preLen == Len(gm.open)
      drawn == SubSeq(gm.open, 1, count)
      rest == SubSeq(gm.open, count + 1, preLen)
  IN [gm EXCEPT !.open = rest,
                !.players[gm.turn + 1] =
                  [@ EXCEPT !.hand = @ \cup Range(drawn),
                            !.mustDiscard = (Len(rest) = 0),
                            !.canDiscard = TRUE,
                            !.noDiscardCardId =
                              IF preLen = 1 /\ count = 1 THEN drawn[1].id ELSE null]]

drawOpenApplyNeverOwes(gm, count) ==
  LET preLen == Len(gm.open)
      drawn == SubSeq(gm.open, preLen - count + 1, preLen)
      rest == SubSeq(gm.open, 1, preLen - count)
  IN [gm EXCEPT !.open = rest,
                !.players[gm.turn + 1] =
                  [@ EXCEPT !.hand = @ \cup Range(drawn),
                            !.mustDiscard = FALSE,
                            !.canDiscard = TRUE,
                            !.noDiscardCardId =
                              IF preLen = 1 /\ count = 1 THEN drawn[1].id ELSE null]]

drawOpenApply(gm, count) ==
  LET preLen == Len(gm.open)
      drawn == SubSeq(gm.open, preLen - count + 1, preLen)
      rest == SubSeq(gm.open, 1, preLen - count)
  IN [gm EXCEPT !.open = rest,
                !.players[gm.turn + 1] =
                  [@ EXCEPT !.hand = @ \cup Range(drawn),
                            !.mustDiscard = (Len(rest) = 0),
                            !.canDiscard = TRUE,
                            !.noDiscardCardId =
                              IF preLen = 1 /\ count = 1 THEN drawn[1].id ELSE null]]

(* ------------------------- discard / end turn ------------------------- *)

discardCheck(gm, s, index) ==
  IF turnCheck(gm, s) # "ok" THEN turnCheck(gm, s)
  ELSE IF ~AtTurn(gm).canDiscard THEN "notDrawn"
  ELSE IF index < 0 \/ index >= Cardinality(AtTurn(gm).hand) THEN "badIndex"
  ELSE IF mustPlayAllMeldsNow(gm, AtTurn(gm)) THEN "mandatoryMeld"
  ELSE IF /\ AtTurn(gm).noDiscardCardId # null
          /\ ById(AtTurn(gm).hand)[index + 1].id = AtTurn(gm).noDiscardCardId
         THEN "restrictedCard"
  ELSE "ok"

\* the checks of the discard handler on an index that is no whole number,
\* below + 1/2 (a number of the payload like any other): the bounds test
\* compares it as a number, p.hand[index] is undefined so that the
\* restriction never matches, and splice truncates the index to below
discardCheckBetween(gm, s, below) ==
  IF turnCheck(gm, s) # "ok" THEN turnCheck(gm, s)
  ELSE IF ~AtTurn(gm).canDiscard THEN "notDrawn"
  ELSE IF below < 0 \/ below >= Cardinality(AtTurn(gm).hand) THEN "badIndex"
  ELSE IF mustPlayAllMeldsNow(gm, AtTurn(gm)) THEN "mandatoryMeld"
  ELSE "ok"

wentOutAdvancesTurn(gm) ==
  LET over == [gm EXCEPT !.roundOver = TRUE, !.winner = AtTurn(gm).id,
                         !.winnerPid = AtTurn(gm).pid]
  IN [checkWin(scoreRound(over)) EXCEPT !.players[gm.turn + 1].canDiscard = FALSE,
                                        !.turn = (gm.turn + 1) % Len(gm.players)]

\* the round-end sequence of discard and playerWentOut
wentOut(gm) ==
  LET over == [gm EXCEPT !.roundOver = TRUE, !.winner = AtTurn(gm).id,
                         !.winnerPid = AtTurn(gm).pid]
  IN [checkWin(scoreRound(over)) EXCEPT !.players[gm.turn + 1].canDiscard = FALSE]

discardApplyKeepsMustDiscard(gm, index) ==
  LET card == ById(AtTurn(gm).hand)[index + 1]
      moved == [gm EXCEPT !.open = Append(@, card),
                          !.players[gm.turn + 1] =
                            [@ EXCEPT !.hand = @ \ {card}, !.noDiscardCardId = null]]
  IN IF AtTurn(moved).hand = {}
       THEN wentOut(moved)
       ELSE [moved EXCEPT !.players[gm.turn + 1].canDiscard = FALSE,
                          !.turn = (gm.turn + 1) % Len(gm.players)]

discardApplyToBottom(gm, index) ==
  LET card == ById(AtTurn(gm).hand)[index + 1]
      moved == [gm EXCEPT !.open = <<card>> \o @,
                          !.players[gm.turn + 1] =
                            [@ EXCEPT !.hand = @ \ {card}, !.noDiscardCardId = null,
                                      !.mustDiscard = FALSE]]
  IN IF AtTurn(moved).hand = {}
       THEN wentOut(moved)
       ELSE [moved EXCEPT !.players[gm.turn + 1].canDiscard = FALSE,
                          !.turn = (gm.turn + 1) % Len(gm.players)]

discardApply(gm, index) ==
  LET card == ById(AtTurn(gm).hand)[index + 1]
      moved == [gm EXCEPT !.open = Append(@, card),
                          !.players[gm.turn + 1] =
                            [@ EXCEPT !.hand = @ \ {card}, !.noDiscardCardId = null,
                                      !.mustDiscard = FALSE]]
  IN IF AtTurn(moved).hand = {}
       THEN wentOut(moved)
       ELSE [moved EXCEPT !.players[gm.turn + 1].canDiscard = FALSE,
                          !.turn = (gm.turn + 1) % Len(gm.players)]

endTurnCheckNoGate(gm, s) ==
  IF turnCheck(gm, s) # "ok" THEN turnCheck(gm, s)
  ELSE IF ~AtTurn(gm).canDiscard THEN "notDrawn"
  ELSE IF AtTurn(gm).mustDiscard THEN "mustDiscard"
  ELSE "ok"

endTurnCheckSkipsMustDiscard(gm, s) ==
  IF turnCheck(gm, s) # "ok" THEN turnCheck(gm, s)
  ELSE IF ~AtTurn(gm).canDiscard THEN "notDrawn"
  ELSE IF mustPlayAllMeldsNow(gm, AtTurn(gm)) THEN "mandatoryMeld"
  ELSE "ok"

endTurnCheck(gm, s) ==
  IF turnCheck(gm, s) # "ok" THEN turnCheck(gm, s)
  ELSE IF ~AtTurn(gm).canDiscard THEN "notDrawn"
  ELSE IF AtTurn(gm).mustDiscard THEN "mustDiscard"
  ELSE IF mustPlayAllMeldsNow(gm, AtTurn(gm)) THEN "mandatoryMeld"
  ELSE "ok"

endTurnApply(gm) ==
  [gm EXCEPT !.players[gm.turn + 1] =
               [@ EXCEPT !.canDiscard = FALSE, !.noDiscardCardId = null],
             !.turn = (gm.turn + 1) % Len(gm.players)]

(* -------------------------- open / add run ---------------------------- *)

\* ids.map(id => hand.find(c => c.id === id))
Lookup(hand, ids) == [k \in DOMAIN ids |-> FindCard(hand, ids[k])]

JokerCount(cards) == Len(SelectSeq(cards, IsJoker))

WithoutFirstOnly(hand, ids) == {c \in hand : ids = <<>> \/ c.id # ids[1]}

\* hand.filter(c => !ids.includes(c.id))
Without(hand, ids) == {c \in hand : c.id \notin Range(ids)}

openRunPreBeforeDraw(gm, s) == turnCheck(gm, s)

\* the checks of openRun that do not read cardIds
openRunPre(gm, s) ==
  IF turnCheck(gm, s) # "ok" THEN turnCheck(gm, s)
  ELSE IF ~AtTurn(gm).canDiscard THEN "notDrawn"
  ELSE "ok"

openRunCheck(gm, s, ids) ==
  IF openRunPre(gm, s) # "ok" THEN openRunPre(gm, s)
  ELSE IF Len(ids) < 3 THEN "tooFewIds"
  ELSE IF Undefined \in Range(Lookup(AtTurn(gm).hand, ids)) THEN "notInHand"
  ELSE IF JokerCount(Lookup(AtTurn(gm).hand, ids)) > 1 THEN "tooManyJokers"
  ELSE IF ~validRun(Lookup(AtTurn(gm).hand, ids)) THEN "invalidRun"
  ELSE "ok"

openRunApply(gm, ids) ==
  [gm EXCEPT !.players[gm.turn + 1] =
     [@ EXCEPT !.hand = Without(@, ids),
               !.openedSets = Append(@, normalizeRun(Lookup(AtTurn(gm).hand, ids))),
               !.opened = TRUE]]

addToRunPreNoDrawCheck(gm, s, targetPlayer, runIndex) ==
  IF ~gm.exists THEN "noRoom"
  ELSE IF gm.roundOver \/ gm.gameOver THEN "over"
  ELSE IF FindById(gm, s) = 0 \/ FindById(gm, targetPlayer) = 0 THEN "noPlayer"
  ELSE IF ~gm.players[FindById(gm, s)].opened THEN "notOpened"
  ELSE IF runIndex < 0
          \/ runIndex >= Len(gm.players[FindById(gm, targetPlayer)].openedSets)
         THEN "badRunIndex"
  ELSE IF gm.teamMode /\ gm.players[FindById(gm, s)].team
                           # gm.players[FindById(gm, targetPlayer)].team
         THEN "wrongTeam"
  ELSE IF ~gm.teamMode /\ gm.players[FindById(gm, s)].id
                            # gm.players[FindById(gm, targetPlayer)].id
         THEN "wrongOwner"
  ELSE "ok"

addToRunPreAnyOwner(gm, s, targetPlayer, runIndex) ==
  IF ~gm.exists THEN "noRoom"
  ELSE IF gm.roundOver \/ gm.gameOver THEN "over"
  ELSE IF FindById(gm, s) = 0 \/ FindById(gm, targetPlayer) = 0 THEN "noPlayer"
  ELSE IF ~gm.players[FindById(gm, s)].opened THEN "notOpened"
  ELSE IF ~gm.players[FindById(gm, s)].canDiscard THEN "notDrawn"
  ELSE IF runIndex < 0
          \/ runIndex >= Len(gm.players[FindById(gm, targetPlayer)].openedSets)
         THEN "badRunIndex"
  ELSE "ok"

\* the checks of addToRun that do not read cardIds
addToRunPre(gm, s, targetPlayer, runIndex) ==
  IF ~gm.exists THEN "noRoom"
  ELSE IF gm.roundOver \/ gm.gameOver THEN "over"
  ELSE IF FindById(gm, s) = 0 \/ FindById(gm, targetPlayer) = 0 THEN "noPlayer"
  ELSE IF ~gm.players[FindById(gm, s)].opened THEN "notOpened"
  ELSE IF ~gm.players[FindById(gm, s)].canDiscard THEN "notDrawn"
  ELSE IF runIndex < 0
          \/ runIndex >= Len(gm.players[FindById(gm, targetPlayer)].openedSets)
         THEN "badRunIndex"
  ELSE IF gm.teamMode /\ gm.players[FindById(gm, s)].team
                           # gm.players[FindById(gm, targetPlayer)].team
         THEN "wrongTeam"
  ELSE IF ~gm.teamMode /\ gm.players[FindById(gm, s)].id
                            # gm.players[FindById(gm, targetPlayer)].id
         THEN "wrongOwner"
  ELSE "ok"

addToRunCheckAllowsJokerOnly(gm, s, targetPlayer, runIndex, ids) ==
  IF addToRunPre(gm, s, targetPlayer, runIndex) # "ok"
    THEN addToRunPre(gm, s, targetPlayer, runIndex)
  ELSE IF Len(ids) < 1 THEN "tooFewIds"
  ELSE LET me == gm.players[FindById(gm, s)]
           owner == gm.players[FindById(gm, targetPlayer)]
           add == Lookup(me.hand, ids)
           original == owner.openedSets[runIndex + 1]
           originalJokers == JokerCount(original)
           addJokers == JokerCount(add)
       IN IF Undefined \in Range(add) THEN "notInHand"
          ELSE IF originalJokers + addJokers > 1 THEN "tooManyJokers"
          ELSE IF ~validRun(original \o add) THEN "invalidRun"
          ELSE "ok"

addToRunCheckSkipsValidRun(gm, s, targetPlayer, runIndex, ids) ==
  IF addToRunPre(gm, s, targetPlayer, runIndex) # "ok"
    THEN addToRunPre(gm, s, targetPlayer, runIndex)
  ELSE IF Len(ids) < 1 THEN "tooFewIds"
  ELSE LET me == gm.players[FindById(gm, s)]
           owner == gm.players[FindById(gm, targetPlayer)]
           add == Lookup(me.hand, ids)
           original == owner.openedSets[runIndex + 1]
           originalJokers == JokerCount(original)
           addJokers == JokerCount(add)
           addReals == Len(SelectSeq(add, IsReal))
       IN IF Undefined \in Range(add) THEN "notInHand"
          ELSE IF originalJokers + addJokers > 1 THEN "tooManyJokers"
          ELSE IF addJokers > 0 /\ addReals = 0 THEN "jokerOnly"
          ELSE "ok"

addToRunCheck(gm, s, targetPlayer, runIndex, ids) ==
  IF addToRunPre(gm, s, targetPlayer, runIndex) # "ok"
    THEN addToRunPre(gm, s, targetPlayer, runIndex)
  ELSE IF Len(ids) < 1 THEN "tooFewIds"
  ELSE LET me == gm.players[FindById(gm, s)]
           owner == gm.players[FindById(gm, targetPlayer)]
           add == Lookup(me.hand, ids)
           original == owner.openedSets[runIndex + 1]
           originalJokers == JokerCount(original)
           addJokers == JokerCount(add)
           addReals == Len(SelectSeq(add, IsReal))
       IN IF Undefined \in Range(add) THEN "notInHand"
          ELSE IF originalJokers + addJokers > 1 THEN "tooManyJokers"
          ELSE IF addJokers > 0 /\ addReals = 0 THEN "jokerOnly"
          ELSE IF addJokers > 0 /\ originalJokers = 0 /\ addReals = 0 THEN "jokerOnly"
          ELSE IF ~validRun(original \o add) THEN "invalidRun"
          ELSE "ok"

addToRunApplyDropsFirst(gm, s, targetPlayer, runIndex, ids) ==
  LET m == FindById(gm, s)
      o == FindById(gm, targetPlayer)
      add == Lookup(gm.players[m].hand, ids)
      combined == gm.players[o].openedSets[runIndex + 1] \o add
      grown == [gm EXCEPT !.players[o].openedSets[runIndex + 1] =
                            Tail(normalizeRun(combined))]
  IN [grown EXCEPT !.players[m].hand = Without(@, ids)]

addToRunApply(gm, s, targetPlayer, runIndex, ids) ==
  LET m == FindById(gm, s)
      o == FindById(gm, targetPlayer)
      add == Lookup(gm.players[m].hand, ids)
      combined == gm.players[o].openedSets[runIndex + 1] \o add
      grown == [gm EXCEPT !.players[o].openedSets[runIndex + 1] = normalizeRun(combined)]
  IN [grown EXCEPT !.players[m].hand = Without(@, ids)]

(* ------------------------------- round -------------------------------- *)

playerWentOutCheckAnyHand(gm, s) ==
  IF turnCheck(gm, s) # "ok" THEN turnCheck(gm, s)
  ELSE IF ~AtTurn(gm).canDiscard THEN "notDrawn"
  ELSE "ok"

playerWentOutCheck(gm, s) ==
  IF turnCheck(gm, s) # "ok" THEN turnCheck(gm, s)
  ELSE IF AtTurn(gm).hand # {} THEN "handNotEmpty"
  ELSE IF ~AtTurn(gm).canDiscard THEN "notDrawn"
  ELSE "ok"

playerWentOutApply(gm) ==
  wentOut([gm EXCEPT !.players[gm.turn + 1] =
                       [@ EXCEPT !.mustDiscard = FALSE, !.canDiscard = FALSE]])

continueGameCheck(gm) ==
  IF ~gm.exists \/ gm.gameOver THEN "noRoomOrGameOver" ELSE "ok"

newRoundNoWrap(gm, deck) ==
  LET dealer == (gm.dealerIndex + 1) % Len(gm.players)
      stock == Popped(deck)
  IN [gm EXCEPT !.closed = Left(stock, HAND_SIZE * Len(gm.players)),
                !.open = <<deck[Len(deck)]>>,
                !.players =
                  [k \in DOMAIN gm.players |->
                     [gm.players[k] EXCEPT !.hand = Range(Taken(Left(stock, HAND_SIZE * (k - 1)),
                                                                 HAND_SIZE)),
                                           !.openedSets = <<>>,
                                           !.opened = FALSE, !.mustDiscard = FALSE,
                                           !.canDiscard = FALSE]],
                !.roundOver = FALSE, !.winner = null, !.winnerPid = null,
                !.dealerIndex = dealer,
                !.turn = dealer + 1]

newRoundKeepsDealer(gm, deck) ==
  LET dealer == gm.dealerIndex % Len(gm.players)
      stock == Popped(deck)
  IN [gm EXCEPT !.closed = Left(stock, HAND_SIZE * Len(gm.players)),
                !.open = <<deck[Len(deck)]>>,
                !.players =
                  [k \in DOMAIN gm.players |->
                     [gm.players[k] EXCEPT !.hand = Range(Taken(Left(stock, HAND_SIZE * (k - 1)),
                                                                 HAND_SIZE)),
                                           !.openedSets = <<>>,
                                           !.opened = FALSE, !.mustDiscard = FALSE,
                                           !.canDiscard = FALSE]],
                !.roundOver = FALSE, !.winner = null, !.winnerPid = null,
                !.dealerIndex = dealer,
                !.turn = (dealer + 1) % Len(gm.players)]

\* the fresh round of continueGame and newGame: the last card of the new
\* deck face up, then HAND_SIZE cards to each player in turn, the rest closed
newRound(gm, deck) ==
  LET dealer == (gm.dealerIndex + 1) % Len(gm.players)
      stock == Popped(deck)
  IN [gm EXCEPT !.closed = Left(stock, HAND_SIZE * Len(gm.players)),
                !.open = <<deck[Len(deck)]>>,
                !.players =
                  [k \in DOMAIN gm.players |->
                     [gm.players[k] EXCEPT !.hand = Range(Taken(Left(stock, HAND_SIZE * (k - 1)),
                                                                 HAND_SIZE)),
                                           !.openedSets = <<>>,
                                           !.opened = FALSE, !.mustDiscard = FALSE,
                                           !.canDiscard = FALSE]],
                !.roundOver = FALSE, !.winner = null, !.winnerPid = null,
                !.dealerIndex = dealer,
                !.turn = (dealer + 1) % Len(gm.players)]

continueGameApplyClearsScores(gm, deck) ==
  [newRound(gm, deck) EXCEPT !.players = [k \in DOMAIN gm.players |-> [@[k] EXCEPT !.score = 0]]]

continueGameApply(gm, deck) == newRound(gm, deck)

newGameCheck(gm) ==
  IF ~gm.exists THEN "noRoom"
  ELSE IF ~gm.gameOver THEN "gameNotOver"
  ELSE "ok"

newGameApplyKeepsTeamScores(gm, deck) ==
  LET fresh == newRound(gm, deck)
  IN [fresh EXCEPT !.gameOver = FALSE,
                   !.players = [k \in DOMAIN fresh.players |->
                                  [fresh.players[k] EXCEPT !.score = 0]]]

newGameApply(gm, deck) ==
  LET fresh == newRound(gm, deck)
  IN [fresh EXCEPT !.gameOver = FALSE,
                   !.teamScores = IF gm.teamMode THEN <<0, 0>> ELSE @,
                   !.players = [k \in DOMAIN fresh.players |->
                                  [fresh.players[k] EXCEPT !.score = 0]]]

(* ----------------------------- handlers ------------------------------- *)

\* what the server sends back: the broadcast of emit(room) after an accepted
\* command, an errorMsg to the issuer, or nothing at all (a bare return);
\* "idle" before the first command
errorMsg(op, why) ==
  IF op = "discard" /\ why = "mandatoryMeld" THEN "errorMsg: mandatory melds before discarding"
  ELSE IF op = "endTurn" /\ why = "mandatoryMeld" THEN "errorMsg: mandatory melds before ending turn"
  ELSE IF op = "discard" /\ why = "restrictedCard" THEN "errorMsg: cannot discard the card just drawn"
  ELSE IF op = "joinRoom" /\ why = "teamFull" THEN "errorMsg: team is full"
  ELSE "nothing"

Accepted(after) == [g |-> emit(after), sent |-> "gameState"]

Rejected(gm, op, why) == [g |-> gm, sent |-> errorMsg(op, why)]

createRoom(gm, s, teamMode, team, deck) ==
  IF createRoomCheck(gm, teamMode, team) = "ok"
    THEN Accepted(createRoomApply(s, teamMode, team, deck))
    ELSE Rejected(gm, "createRoom", createRoomCheck(gm, teamMode, team))

joinRoom(gm, s, team) ==
  IF joinRoomCheck(gm, s, team) = "ok"
    THEN Accepted(joinRoomApply(gm, s, team))
    ELSE Rejected(gm, "joinRoom", joinRoomCheck(gm, s, team))

drawClosed(gm, s) ==
  IF drawClosedCheck(gm, s) = "ok"
    THEN Accepted(drawClosedApply(gm))
    ELSE Rejected(gm, "drawClosed", drawClosedCheck(gm, s))

drawOpen(gm, s, count) ==
  IF drawOpenCheck(gm, s, count) = "ok"
    THEN Accepted(drawOpenApply(gm, count))
    ELSE Rejected(gm, "drawOpen", drawOpenCheck(gm, s, count))

discardMovesFirst(gm, s, index) ==
  IF discardCheck(gm, s, index) = "ok"
    THEN Accepted(discardApply(gm, index))
    ELSE IF discardCheck(gm, s, index) = "restrictedCard"
           THEN [g |-> [gm EXCEPT !.open = Append(@, ById(AtTurn(gm).hand)[index + 1]),
                                  !.players[gm.turn + 1].hand =
                                    @ \ {ById(AtTurn(gm).hand)[index + 1]}],
                 sent |-> errorMsg("discard", "restrictedCard")]
           ELSE Rejected(gm, "discard", discardCheck(gm, s, index))

discard(gm, s, index) ==
  IF discardCheck(gm, s, index) = "ok"
    THEN Accepted(discardApply(gm, index))
    ELSE Rejected(gm, "discard", discardCheck(gm, s, index))

\* discard with the index below + 1/2: hand.splice(index, 1) takes the card
\* at place below
discardBetween(gm, s, below) ==
  IF discardCheckBetween(gm, s, below) = "ok"
    THEN Accepted(discardApply(gm, below))
    ELSE Rejected(gm, "discard", discardCheckBetween(gm, s, below))

endTurn(gm, s) ==
  IF endTurnCheck(gm, s) = "ok"
    THEN Accepted(endTurnApply(gm))
    ELSE Rejected(gm, "endTurn", endTurnCheck(gm, s))

openRun(gm, s, ids) ==
  IF openRunCheck(gm, s, ids) = "ok"
    THEN Accepted(openRunApply(gm, ids))
    ELSE Rejected(gm, "openRun", openRunCheck(gm, s, ids))

addToRun(gm, s, targetPlayer, runIndex, ids) ==
  IF addToRunCheck(gm, s, targetPlayer, runIndex, ids) = "ok"
    THEN Accepted(addToRunApply(gm, s, targetPlayer, runIndex, ids))
    ELSE Rejected(gm, "addToRun", addToRunCheck(gm, s, targetPlayer, runIndex, ids))

playerWentOut(gm, s) ==
  IF playerWentOutCheck(gm, s) = "ok"
    THEN Accepted(playerWentOutApply(gm))
    ELSE Rejected(gm, "playerWentOut", playerWentOutCheck(gm, s))

continueGame(gm, deck) ==
  IF continueGameCheck(gm) = "ok"
    THEN Accepted(continueGameApply(gm, deck))
    ELSE Rejected(gm, "continueGame", continueGameCheck(gm))

newGame(gm, deck) ==
  IF newGameCheck(gm) = "ok"
    THEN Accepted(newGameApply(gm, deck))
    ELSE Rejected(gm, "newGame", newGameCheck(gm))

(* --------------------------- client inputs ---------------------------- *)

RECURSIVE Ascending(_)
Ascending(S) ==
  IF S = {} THEN <<>>
  ELSE LET m == CHOOSE x \in S : \A y \in S : x <= y
       IN <<m>> \o Ascending(S \ {m})

\* the ids a client may send: those of its own hand and one no card has
IdPool(gm, s) ==
  IF FindById(gm, s) = 0 THEN {0}
  ELSE {c.id : c \in gm.players[FindById(gm, s)].hand} \cup {0}

\* the cardIds tried: nothing, every choice of up to MaxIds distinct ids,
\* and lists that name an id twice
IdLists(pool) ==
  {<<>>}
    \cup {Ascending(S) : S \in {T \in SUBSET pool : Cardinality(T) \in 1..MaxIds}}
    \cup {<<a, a, b>> : a \in pool \ {0}, b \in pool \ {0}}

\* the run indices tried: every one some player has, one before, one after
RunIndices(gm) ==
  -1..(IF \E k \in DOMAIN gm.players : Len(gm.players[k].openedSets) > 0
         THEN CHOOSE n \in {Len(gm.players[k].openedSets) : k \in DOMAIN gm.players} :
                \A k \in DOMAIN gm.players : Len(gm.players[k].openedSets) <= n
         ELSE 0)

Teams == {null, 0, 1}

\* the socket that creates the room and the team it may ask for; the other
\* choices differ from these by renaming sockets and teams
Creators == {1}

CreatorTeams == {null, 0}

\* the hand indices tried: every place of the longest hand, one before,
\* one after
HandIndices(gm) ==
  -1..(IF gm.players = <<>> THEN 0
       ELSE CHOOSE n \in {Cardinality(gm.players[k].hand) : k \in DOMAIN gm.players} :
              \A k \in DOMAIN gm.players : Cardinality(gm.players[k].hand) <= n)

(* ------------------------------ actions ------------------------------- *)

Do(r) == g' = r.g /\ sent' = r.sent

CreateRoom ==
  \E s \in Creators, teamMode \in scope.teamModes, team \in CreatorTeams :
    IF createRoomCheck(g, teamMode, team) = "ok"
      THEN /\ uuids < scope.decks
           /\ \E deck \in buildDeck(uuids) : Do(createRoom(g, s, teamMode, team, deck))
           /\ uuids' = uuids + 1
           /\ UNCHANGED <<scope, probe>>
      ELSE Do(createRoom(g, s, teamMode, team, <<>>)) /\ UNCHANGED <<uuids, scope, probe>>

\* the team asked for is read in a team game only
JoinRoom ==
  /\ \E s \in Sockets :
       \E team \in (IF g.exists /\ g.teamMode THEN Teams ELSE {null}) :
         Do(joinRoom(g, s, team))
  /\ UNCHANGED <<uuids, scope, probe>>

DrawClosed ==
  /\ \E s \in Sockets : Do(drawClosed(g, s))
  /\ UNCHANGED <<uuids, scope, probe>>

\* the count is read only when the command comes from the player at turn of
\* a round that is on
DrawOpen ==
  /\ \E s \in Sockets :
       \E count \in (IF turnCheck(g, s) = "ok" THEN 0..(Len(g.open) + 1) ELSE {1}) :
         Do(drawOpen(g, s, count))
  /\ UNCHANGED <<uuids, scope, probe>>

\* the index likewise
Discard ==
  /\ \E s \in Sockets :
       \E index \in (IF turnCheck(g, s) = "ok" THEN HandIndices(g) ELSE {0}) :
         \/ Do(discard(g, s, index))
         \/ Do(discardBetween(g, s, index))
  /\ UNCHANGED <<uuids, scope, probe>>

EndTurn ==
  /\ \E s \in Sockets : Do(endTurn(g, s))
  /\ UNCHANGED <<uuids, scope, probe>>

OpenRun ==
  /\ \E s \in Sockets :
       \E ids \in (IF openRunPre(g, s) = "ok" THEN IdLists(IdPool(g, s)) ELSE {<<>>}) :
         Do(openRun(g, s, ids))
  /\ UNCHANGED <<uuids, scope, probe>>

\* the target, the run index and the ids are read only when the command
\* comes from a player of a round that is on who has opened a run
AddToRun ==
  /\ \E s \in Sockets :
       \E targetPlayer \in (IF addToRunPre(g, s, s, 0) \in {"noRoom", "over", "noPlayer", "notOpened"}
                              THEN {s} ELSE Sockets) :
         \E runIndex \in (IF addToRunPre(g, s, s, 0) \in {"noRoom", "over", "noPlayer", "notOpened"}
                             THEN {0} ELSE RunIndices(g)) :
           \E ids \in (IF addToRunPre(g, s, targetPlayer, runIndex) = "ok"
                         THEN IdLists(IdPool(g, s)) ELSE {<<>>}) :
             Do(addToRun(g, s, targetPlayer, runIndex, ids))
  /\ UNCHANGED <<uuids, scope, probe>>

PlayerWentOut ==
  /\ \E s \in Sockets : Do(playerWentOut(g, s))
  /\ UNCHANGED <<uuids, scope, probe>>

ContinueGame ==
  IF continueGameCheck(g) = "ok"
    THEN /\ uuids < scope.decks
         /\ \E deck \in buildDeck(uuids) : Do(continueGame(g, deck))
         /\ uuids' = uuids + 1
         /\ UNCHANGED <<scope, probe>>
    ELSE Do(continueGame(g, <<>>)) /\ UNCHANGED <<uuids, scope, probe>>

NewGame ==
  IF newGameCheck(g) = "ok"
    THEN /\ uuids < scope.decks
         /\ \E deck \in buildDeck(uuids) : Do(newGame(g, deck))
         /\ uuids' = uuids + 1
         /\ UNCHANGED <<scope, probe>>
    ELSE Do(newGame(g, <<>>)) /\ UNCHANGED <<uuids, scope, probe>>

\* no pure function under test
NoProbe == [fn |-> "none"]

\* the server after start-up: no room yet
ServerStart ==
  /\ g = NoGame
  /\ sent = "idle"
  /\ uuids = 0
  /\ probe = NoProbe

\* one round of an individual game
Init ==
  /\ ServerStart
  /\ scope = [teamModes |-> {FALSE}, decks |-> MaxDecks, orders |-> NumShuffles]

\* one round of a team game
InitTeam ==
  /\ ServerStart
  /\ scope = [teamModes |-> {TRUE}, decks |-> MaxDecks, orders |-> NumShuffles]

\* one round of either
InitAll ==
  /\ ServerStart
  /\ scope \in {[teamModes |-> {m}, decks |-> MaxDecks, orders |-> NumShuffles] : m \in BOOLEAN}

Next ==
  \/ CreateRoom
  \/ JoinRoom
  \/ DrawClosed
  \/ DrawOpen
  \/ Discard
  \/ EndTurn
  \/ OpenRun
  \/ AddToRun
  \/ PlayerWentOut
  \/ ContinueGame
  \/ NewGame

Spec == Init /\ [][Next]_vars

SpecTeam == InitTeam /\ [][Next]_vars

SpecAll == InitAll /\ [][Next]_vars

(* --------------------------- later rounds ----------------------------- *)

\* a room of two players at the start of a round of a game under way:
\* players 1 and 2 have created and joined it, and rounds played since have
\* brought the first player, or the first player's team, to SeedScore
LaterRound(teamMode, team1, team2, deck) ==
  LET joined == joinRoomApply(createRoomApply(1, teamMode, team1, deck), 2, team2)
  IN emit([joined EXCEPT !.players[1].score = SeedScore,
                         !.teamScores = IF teamMode THEN <<SeedScore, 0>> ELSE @])

\* the deck of the round taken up: the first order buildDeck may produce
SeedDeck == Shuffled(UnshuffledDeck(0), 0)

\* the server with one deck built and an individual game under way; the
\* behaviour builds up to MaxDecks more
InitRounds ==
  /\ g = LaterRound(FALSE, null, null, SeedDeck)
  /\ sent = "gameState"
  /\ uuids = 1
  /\ probe = NoProbe
  /\ scope = [teamModes |-> {FALSE}, decks |-> 1 + MaxDecks, orders |-> NumReshuffles]

\* the same with a team game under way, the two players on one team or on
\* two
InitRoundsTeam ==
  /\ g \in {LaterRound(TRUE, 0, team2, SeedDeck) : team2 \in {0, 1}}
  /\ sent = "gameState"
  /\ uuids = 1
  /\ probe = NoProbe
  /\ scope = [teamModes |-> {TRUE}, decks |-> 1 + MaxDecks, orders |-> NumReshuffles]

\* a later round of an individual game, or of a team game with the two
\* players on two teams
InitRoundsAll ==
  \/ InitRounds
  \/ InitRoundsTeam /\ g.players[2].team = 1

\* one later round of a game of either kind, the two players of a team game
\* on one team or on two; no further deck is built
InitOneRound ==
  /\ g \in {LaterRound(FALSE, null, null, SeedDeck)}
           \cup {LaterRound(TRUE, 0, team2, SeedDeck) : team2 \in {0, 1}}
  /\ sent = "gameState"
  /\ uuids = 1
  /\ probe = NoProbe
  /\ scope = [teamModes |-> {g.teamMode}, decks |-> 1, orders |-> NumReshuffles]

\* an individual game from the start of the server, or taken up in a later
\* round
InitGame == Init \/ InitRounds

SpecRounds == InitRounds /\ [][Next]_vars

SpecRoundsTeam == InitRoundsTeam /\ [][Next]_vars

SpecRoundsAll == InitRoundsAll /\ [][Next]_vars

SpecGame == InitGame /\ [][Next]_vars

SpecOneRound == InitOneRound /\ [][Next]_vars

(* ------------------------- a round of melds --------------------------- *)

\* the values of a deck of one suit with one rank more than the deck of the
\* other rounds, so that two players can each open a run and still hold cards
MeldValues == SelectSeq(DECK_VALUES, LAMBDA v : v = "2" \/ INDEX(v) >= Len(ORDER) - NumMeldReal)

\* that deck as buildDeck makes it, in the order number r of the shuffle
MeldDeck(r) ==
  Shuffled([k \in 1..Len(MeldValues) |->
              [id |-> k, value |-> MeldValues[k], suit |-> SUITS[1],
               points |-> IF MeldValues[k] = "A" \/ MeldValues[k] = "2" THEN 2 ELSE 1]],
           r)

\* a later round dealt from that deck to two players: an individual game, or
\* a team game with the two on one team or on two; no further deck is built
InitMelds ==
  /\ g \in {LaterRound(FALSE, null, null, MeldDeck(r)) : r \in 0..(NumMeldOrders - 1)}
           \cup {LaterRound(TRUE, 0, team2, MeldDeck(r)) :
                   team2 \in {0, 1}, r \in 0..(NumMeldOrders - 1)}
  /\ sent = "gameState"
  /\ uuids = 1
  /\ probe = NoProbe
  /\ scope = [teamModes |-> {g.teamMode}, decks |-> 1, orders |-> NumReshuffles]

SpecMelds == InitMelds /\ [][Next]_vars

\* a game of either kind from the start of the server, or taken up in a later
\* round
InitScores == InitAll \/ InitRoundsAll

SpecScores == InitScores /\ [][Next]_vars

(* --------------------- the gate's pure functions ---------------------- *)

\* the cards the functions are tried on: NumProbeSuits suits of the wildcard
\* and the NumProbeRanks lowest ranks, built as buildDeck builds cards
ProbeValues == <<"2">> \o SubSeq(ORDER, 1, Min(NumProbeRanks, Len(ORDER)))

ProbeCards ==
  {[id |-> (si - 1) * Len(ProbeValues) + vi,
    value |-> ProbeValues[vi],
    suit |-> SUITS[si],
    points |-> IF ProbeValues[vi] = "A" \/ ProbeValues[vi] = "2" THEN 2 ELSE 1] :
     si \in 1..Min(NumProbeSuits, Len(SUITS)), vi \in DOMAIN ProbeValues}

ProbeHands == {h \in SUBSET ProbeCards : Cardinality(h) <= MaxProbe}

\* the card arrays the run functions are tried on: every order, and cards
\* named more than once as a client may name them
ProbeArrays == UNION {[1..n -> ProbeCards] : n \in 0..MaxProbe}

\* normalizeRun is only ever called on what validRun accepted
ProbeRuns == {cards \in ProbeArrays : validRun(cards)}

\* a call not yet made: the function, its argument (a hand or a card
\* array), and room for the boolean or the array it returns
Call(fn, hand, cards) ==
  [fn |-> fn, hand |-> hand, cards |-> cards, done |-> FALSE, out |-> FALSE,
   run |-> <<>>]

InitOracle ==
  /\ g = NoGame
  /\ sent = "idle"
  /\ uuids = 0
  /\ scope = [teamModes |-> {}, decks |-> 0, orders |-> 0]
  /\ probe \in {Call("canOpenAnyRunFromHand", h, <<>>) : h \in ProbeHands}
               \cup {Call("validRun", {}, cards) : cards \in ProbeArrays}
               \cup {Call("normalizeRun", {}, cards) : cards \in ProbeRuns}

\* one call of canOpenAnyRunFromHand(hand)
CallCanOpenAnyRunFromHand ==
  /\ probe.fn = "canOpenAnyRunFromHand"
  /\ ~probe.done
  /\ probe' = [probe EXCEPT !.done = TRUE, !.out = canOpenAnyRunFromHand(probe.hand)]
  /\ UNCHANGED <<g, sent, uuids, scope>>

\* one call of validRun(cards)
CallValidRun ==
  /\ probe.fn = "validRun"
  /\ ~probe.done
  /\ probe' = [probe EXCEPT !.done = TRUE, !.out = validRun(probe.cards)]
  /\ UNCHANGED <<g, sent, uuids, scope>>

\* one call of normalizeRun(cards)
CallNormalizeRun ==
  /\ probe.fn = "normalizeRun"
  /\ ~probe.done
  /\ probe' = [probe EXCEPT !.done = TRUE, !.run = normalizeRun(probe.cards)]
  /\ UNCHANGED <<g, sent, uuids, scope>>

NextOracle ==
  \/ CallCanOpenAnyRunFromHand
  \/ CallValidRun
  \/ CallNormalizeRun

SpecOracle == InitOracle /\ [][NextOracle]_vars

(* ------------------------------ claims -------------------------------- *)

\* every card of the room, place by place: hands, opened runs, closed, open
PlayerCards(p) == ById(p.hand) \o Flat(p.openedSets)

AllCards(gm) ==
  Flat([k \in DOMAIN gm.players |-> PlayerCards(gm.players[k])]) \o gm.closed \o gm.open

\* the deck the current round was dealt from
RoundDeck == UnshuffledDeck(uuids - 1)

AnyRun(gm, Test(_)) ==
  \E k \in DOMAIN gm.players :
    \E r \in DOMAIN gm.players[k].openedSets : Test(gm.players[k].openedSets[r])

\* C1: card conservation.  In every state of a room, each card id of the
\* round's deck lies in exactly one of the hands, the opened runs, the closed
\* pile and the open pile, with the rank it was built with: no card is
\* duplicated or lost.
C1_CardConservation ==
  g.exists =>
    LET all == AllCards(g)
    IN /\ Len(all) = DeckSize
       /\ \A k \in DOMAIN RoundDeck :
            Cardinality({i \in DOMAIN all : all[i].id = RoundDeck[k].id}) = 1
       /\ \A i \in DOMAIN all :
            \E k \in DOMAIN RoundDeck :
              all[i].id = RoundDeck[k].id /\ all[i].value = RoundDeck[k].value

\* a run has grown past three cards while hands and the open pile hold cards
C1_Witness ==
  /\ g.exists
  /\ Len(g.players) = 2
  /\ AnyRun(g, LAMBDA run : Len(run) >= 4)
  /\ Len(g.open) >= 1
  /\ \E k \in DOMAIN g.players : g.players[k].hand # {}

\* the shape the rules ask of a run, stated on its span of ranks
RunShape(run) ==
  LET reals == {k \in DOMAIN run : run[k].value # "2"}
      wild == {k \in DOMAIN run : run[k].value = "2"}
      ranks == {INDEX(run[k].value) : k \in reals}
  IN /\ Len(run) >= 3
     /\ Cardinality(wild) <= 1
     /\ Cardinality(reals) >= 2
     /\ \A a \in reals, b \in reals : run[a].suit = run[b].suit
     /\ Cardinality(ranks) = Cardinality(reals)
     /\ \A lo \in ranks, hi \in ranks :
          (hi - lo + 1) - Cardinality({x \in ranks : lo <= x /\ x <= hi})
            <= Cardinality(wild)

C3_RejectedIsNoOp == [][sent' # "gameState" => g' = g]_vars

\* a discard has just been refused with an error message in a live round
C3_Witness ==
  /\ sent = "errorMsg: cannot discard the card just drawn"
  /\ g.exists
  /\ ~g.roundOver
  /\ AtTurn(g).noDiscardCardId # null

\* three cards of consecutive ranks in one suit, none of them a wildcard
HoldsPureRun(hand) ==
  \E a \in hand, b \in hand, c \in hand :
    /\ a.value # "2" /\ b.value # "2" /\ c.value # "2"
    /\ a.suit = b.suit /\ b.suit = c.suit
    /\ INDEX(b.value) = INDEX(a.value) + 1
    /\ INDEX(c.value) = INDEX(b.value) + 1

\* the answers discard and endTurn give the socket in the room as it stands
GateAnswers(gm, s) ==
  {discardCheck(gm, s, index) : index \in HandIndices(gm)} \cup {endTurnCheck(gm, s)}

C9_GoingOutEndsRound ==
  [][\A k \in DOMAIN g.players :
       (/\ uuids' = uuids
        /\ k \in DOMAIN g'.players
        /\ g.players[k].hand # {}
        /\ g'.players[k].hand = {})
         => g'.roundOver]_vars

\* C9, second half: the turn never passes on from a player whose hand is empty
C9_NoTurnPassWithEmptyHand ==
  [][(/\ g.exists /\ g'.exists /\ uuids' = uuids
      /\ HasTurn(g) /\ ~g.roundOver /\ ~g'.roundOver
      /\ g'.turn # g.turn)
       => AtTurn(g).hand # {}]_vars

RECURSIVE RulePoints(_)
\* wildcards and Aces count 2, every other card 1
RulePoints(cards) ==
  IF cards = <<>> THEN 0
  ELSE (IF Head(cards).value \in {"2", "A"} THEN 2 ELSE 1) + RulePoints(Tail(cards))

\* what the rules give player k when the round ends in room gm
RuleDelta(gm, k) ==
  LET p == gm.players[k]
      runPts == RulePoints(Flat(p.openedSets))
      inHand == RulePoints(ById(p.hand))
  IN IF k = gm.turn + 1 THEN runPts + 10
     ELSE IF p.openedSets = <<>> THEN 2 * (runPts - inHand)
     ELSE runPts - inHand

\* C10: individual scoring.  When a round ends in an individual game, the
\* winner's score grows by the points of the winner's opened runs plus 10, and
\* every other player's by opened points minus hand points, doubled if the
\* player opened no run this round; wildcards and Aces count 2, others 1.
C10_IndividualScoring ==
  [][(/\ g.exists /\ ~g.teamMode /\ ~g.roundOver
      /\ g'.roundOver /\ uuids' = uuids)
       => \A k \in DOMAIN g'.players :
            g'.players[k].score = g.players[k].score + RuleDelta(g', k)]_vars

\* a round has ended: the winner has the bonus and a run, a loser who opened
\* nothing has lost points
C10_Witness ==
  /\ g.exists /\ ~g.teamMode /\ g.roundOver
  /\ Len(g.players) = 2
  /\ AtTurn(g).score >= 13
  /\ \E k \in DOMAIN g.players :
       k # g.turn + 1 /\ g.players[k].openedSets = <<>> /\ g.players[k].score < 0

\* every command a client may send in room gm, with the reason the server
\* finds against it ("ok" if none) and the server's answer
GameReplies(gm) ==
  {[op |-> "drawClosed", why |-> drawClosedCheck(gm, s), r |-> drawClosed(gm, s)] :
     s \in Sockets}
  \cup {[op |-> "drawOpen", why |-> drawOpenCheck(gm, x[1], x[2]),
         r |-> drawOpen(gm, x[1], x[2])] : x \in Sockets \X (0..(Len(gm.open) + 1))}
  \cup {[op |-> "discard", why |-> discardCheck(gm, x[1], x[2]),
         r |-> discard(gm, x[1], x[2])] : x \in Sockets \X HandIndices(gm)}
  \cup {[op |-> "discard", why |-> discardCheckBetween(gm, x[1], x[2]),
         r |-> discardBetween(gm, x[1], x[2])] : x \in Sockets \X HandIndices(gm)}
  \cup {[op |-> "endTurn", why |-> endTurnCheck(gm, s), r |-> endTurn(gm, s)] :
          s \in Sockets}
  \cup {[op |-> "playerWentOut", why |-> playerWentOutCheck(gm, s),
         r |-> playerWentOut(gm, s)] : s \in Sockets}
  \cup {[op |-> "joinRoom", why |-> joinRoomCheck(gm, x[1], x[2]),
         r |-> joinRoom(gm, x[1], x[2])] : x \in Sockets \X Teams}

MeldReplies(gm) ==
  UNION {{[op |-> "openRun", why |-> openRunCheck(gm, s, ids), r |-> openRun(gm, s, ids)] :
            ids \in (IF openRunPre(gm, s) = "ok" THEN IdLists(IdPool(gm, s)) ELSE {<<>>})} :
         s \in Sockets}
  \cup UNION {{[op |-> "addToRun", why |-> addToRunCheck(gm, x[1], x[2], x[3], ids),
                r |-> addToRun(gm, x[1], x[2], x[3], ids)] :
                 ids \in (IF addToRunPre(gm, x[1], x[2], x[3]) = "ok"
                            THEN IdLists(IdPool(gm, x[1])) ELSE {<<>>})} :
              x \in Sockets \X Sockets \X RunIndices(gm)}

RoundReplies(gm) ==
  (IF continueGameCheck(gm) = "ok" THEN {}
   ELSE {[op |-> "continueGame", why |-> continueGameCheck(gm),
          r |-> continueGame(gm, <<>>)]})
  \cup (IF newGameCheck(gm) = "ok" THEN {}
        ELSE {[op |-> "newGame", why |-> newGameCheck(gm), r |-> newGame(gm, <<>>)]})

Replies(gm) == GameReplies(gm) \cup MeldReplies(gm) \cup RoundReplies(gm)

\* C4: every rejected command yields an explicit error notification to the
\* issuing connection: an endTurn while mustDiscard is true, a command out of
\* turn, after the round or game is over, or a second draw are each answered
\* with an error rather than dropped silently.
C4_RejectionsNotified ==
  g.exists => \A x \in Replies(g) : x.why # "ok" => x.r.sent \notin {"nothing", "gameState"}

\* the closed pile is empty, the open pile is not, and the player at turn has
\* drawn and holds a pure run
GateCase(gm) ==
  /\ gm.exists /\ HasTurn(gm)
  /\ Len(gm.closed) = 0
  /\ Len(gm.open) # 0
  /\ AtTurn(gm).canDiscard
  /\ HoldsPureRun(AtTurn(gm).hand)

DiscardsBlocked(gm) ==
  \A index \in 0..(Cardinality(AtTurn(gm).hand) - 1) :
    discard(gm, AtTurn(gm).id, index)
      = [g |-> gm, sent |-> "errorMsg: mandatory melds before discarding"]

\* C5 as stated: in the gate case every discard of a valid index and the
\* endTurn of the player at turn are refused with the pending-meld error, the
\* room unchanged.
C5_GateBlocksTurnEnd ==
  GateCase(g) =>
    /\ DiscardsBlocked(g)
    /\ endTurn(g, AtTurn(g).id)
         = [g |-> g, sent |-> "errorMsg: mandatory melds before ending turn"]

\* C5: in the gate case every discard of a valid index is refused with the
\* pending-meld error and the room unchanged; endTurn is refused with the room
\* unchanged too, and with the pending-meld error when the player is not
\* bound to discard.
C5_GateBlocksTurnEndAmended ==
  GateCase(g) =>
    /\ DiscardsBlocked(g)
    /\ endTurn(g, AtTurn(g).id).g = g
    /\ endTurn(g, AtTurn(g).id).sent # "gameState"
    /\ ~AtTurn(g).mustDiscard =>
         endTurn(g, AtTurn(g).id).sent = "errorMsg: mandatory melds before ending turn"

\* the gate has just refused an endTurn of a player who is free not to discard
C5_Witness ==
  /\ GateCase(g)
  /\ ~AtTurn(g).mustDiscard
  /\ sent = "errorMsg: mandatory melds before ending turn"

\* player p could add to a run it may touch: one card of the hand, or the
\* wildcard and one real card when the run holds no wildcard
LegalAddExists(gm, p) ==
  \E target \in Sockets, runIndex \in RunIndices(gm) :
    /\ addToRunPre(gm, p.id, target, runIndex) = "ok"
    /\ \/ \E c \in p.hand : addToRunCheck(gm, p.id, target, runIndex, <<c.id>>) = "ok"
       \/ /\ ~HasJoker(gm.players[FindById(gm, target)].openedSets[runIndex + 1])
          /\ \E j \in p.hand, c \in p.hand :
               /\ IsJoker(j) /\ IsReal(c)
               /\ addToRunCheck(gm, p.id, target, runIndex, <<j.id, c.id>>) = "ok"

\* C8: the add-to-run branch of the gate is complete.  With the closed pile
\* empty, the open pile non-empty and the player having drawn, the gate is on
\* whenever the player could legally add a hand card, or the wildcard with a
\* real card, to a run it may touch.
C8_AddBranchComplete ==
  \A k \in DOMAIN g.players :
    (/\ Len(g.closed) = 0 /\ Len(g.open) # 0
     /\ g.players[k].canDiscard
     /\ LegalAddExists(g, g.players[k]))
      => mustPlayAllMeldsNow(g, g.players[k])

\* some three or more cards of the hand, at most one of them a wildcard,
\* make a run validRun accepts
OpenableSubsetExists(hand) ==
  \E S \in SUBSET hand :
    /\ Cardinality(S) >= 3
    /\ Cardinality({c \in S : c.value = "2"}) <= 1
    /\ validRun(ById(S))

\* C7: the open-run branch of the gate matches legality.  For every hand,
\* canOpenAnyRunFromHand is true exactly when some subset of at least three
\* hand cards with at most one wildcard satisfies validRun; two wildcards
\* never bridge a span together.
C7_OpenBranchMatchesLegality ==
  (probe.fn = "canOpenAnyRunFromHand" /\ probe.done)
    => (probe.out <=> OpenableSubsetExists(probe.hand))

\* C18: validRun agrees with its reference for every array of cards, in
\* every order: true iff there are at least 3 cards, at most 1 wildcard, at
\* least 2 non-wildcards, all of one suit, no rank twice, and the gaps
\* between consecutive ranks sum to no more than the wildcards.
C18_ValidRunReference ==
  (probe.fn = "validRun" /\ probe.done) => (probe.out <=> RunShape(probe.cards))

\* validRun has accepted four cards given with the wildcard first and the
\* real cards in descending order
C18_Witness ==
  /\ probe.fn = "validRun" /\ probe.done /\ probe.out
  /\ Len(probe.cards) = 4
  /\ probe.cards[1].value = "2"
  /\ INDEX(probe.cards[2].value) > INDEX(probe.cards[3].value)

RECURSIVE ByRank(_)
\* cards of distinct ranks, lowest rank first
ByRank(S) ==
  IF S = {} THEN <<>>
  ELSE LET lo == CHOOSE c \in S : \A d \in S : INDEX(c.value) <= INDEX(d.value)
       IN <<lo>> \o ByRank(S \ {lo})

CardIds(cards) == [k \in DOMAIN cards |-> cards[k].id]

\* where the rule puts the one wildcard of a valid run: at the missing rank
\* between the lowest and the highest real card, else last
RulePlacement(cards) ==
  LET reals == {cards[k] : k \in {i \in DOMAIN cards : cards[i].value # "2"}}
      joker == cards[CHOOSE k \in DOMAIN cards : cards[k].value = "2"]
      ranks == {INDEX(c.value) : c \in reals}
      missing == {i \in 0..(Len(ORDER) - 1) :
                    /\ i \notin ranks
                    /\ \E lo \in ranks, hi \in ranks : lo < i /\ i < hi}
  IN IF missing = {} THEN CardIds(ByRank(reals)) \o <<joker.id>>
     ELSE CardIds(ByRank({c \in reals : \A m \in missing : INDEX(c.value) < m}))
            \o <<joker.id>>
            \o CardIds(ByRank({c \in reals : \A m \in missing : INDEX(c.value) > m}))

\* C19: for every valid run with exactly one wildcard, normalizeRun lists the
\* real cards in ascending rank and puts the wildcard at the one missing rank
\* between the lowest and the highest real card, or last if no rank is missing.
C19_WildcardPlacement ==
  (/\ probe.fn = "normalizeRun" /\ probe.done
   /\ Cardinality({k \in DOMAIN probe.cards : probe.cards[k].value = "2"}) = 1)
    => CardIds(probe.run) = RulePlacement(probe.cards)

\* a wildcard given first has been moved into the gap of a three-card run
C19_Witness ==
  /\ probe.fn = "normalizeRun" /\ probe.done
  /\ Len(probe.cards) = 3
  /\ probe.cards[1].value = "2"
  /\ probe.run[2].value = "2"

\* C20: normalizeRun preserves the run.  For every valid run R the result
\* holds the same card ids with the same ranks (and the real cards unchanged
\* altogether), is valid again, and is left as it is by a second
\* normalizeRun.
C20_NormalizePreservesRun ==
  (probe.fn = "normalizeRun" /\ probe.done) =>
    /\ Len(probe.run) = Len(probe.cards)
    /\ {<<c.id, c.value>> : c \in Range(probe.run)}
         = {<<c.id, c.value>> : c \in Range(probe.cards)}
    /\ {c \in Range(probe.run) : c.value # "2"}
         = {c \in Range(probe.cards) : c.value # "2"}
    /\ validRun(probe.run)
    /\ normalizeRun(probe.run) = probe.run

\* a run was reordered and its wildcard, of another suit, given the suit of
\* the run
C20_Witness ==
  /\ probe.fn = "normalizeRun" /\ probe.done
  /\ probe.run # probe.cards
  /\ \E k \in DOMAIN probe.run, l \in DOMAIN probe.cards :
       /\ probe.run[k].value = "2"
       /\ probe.cards[l].id = probe.run[k].id
       /\ probe.cards[l].suit # probe.run[k].suit

\* the hands in a view, player by player
HandFields(view) == [k \in DOMAIN view.players |-> view.players[k].hand]

\* the places of the players whose socket is not that of the player at place r
Others(gm, r) == {x \in DOMAIN gm.players : gm.players[x].id # gm.players[r].id}

\* the rooms that differ from gm only in the cards (not the number of cards)
\* some player other than the one at place r holds
OtherHands(gm, r) ==
  {[gm EXCEPT !.players[x].hand = H] :
     x \in Others(gm, r),
     H \in {T \in SUBSET Range(RoundDeck) : Cardinality(T) <= DeckSize}}

SameSizes(gm, gm2) ==
  \A k \in DOMAIN gm.players :
    Cardinality(gm.players[k].hand) = Cardinality(gm2.players[k].hand)

\* C16: hand masking.  The view sent to a player shows that player's hand in
\* full and, for every other player, as many placeholders as the hand has
\* cards, with no rank, suit or id; rooms that differ only in what the other
\* players hold give the same hands in the view.
C16_HandMasking ==
  g.exists =>
    \A r \in DOMAIN g.players :
      LET view == gameState(g, g.players[r].id)
      IN /\ view.players[r].hand = ById(g.players[r].hand)
         /\ \A x \in Others(g, r) :
              /\ Len(view.players[x].hand) = Cardinality(g.players[x].hand)
              /\ \A k \in DOMAIN view.players[x].hand :
                   view.players[x].hand[k] = [value |-> "?", suit |-> "?"]
         /\ \A g2 \in OtherHands(g, r) :
              SameSizes(g, g2)
                => HandFields(gameState(g2, g.players[r].id)) = HandFields(view)

\* two players hold cards, one of them three since a draw, and the state has
\* been broadcast
C16_Witness ==
  /\ g.exists /\ sent = "gameState"
  /\ Len(g.players) = 2
  /\ \A k \in DOMAIN g.players : g.players[k].hand # {}
  /\ \E k \in DOMAIN g.players : Cardinality(g.players[k].hand) = 3

\* the rooms that differ from gm in one card of the closed pile, changed
\* places with a card of a player other than the one at place r
ClosedSwaps(gm, r) ==
  {[gm EXCEPT !.closed[i] = c,
              !.players[x].hand = (@ \ {c}) \cup {gm.closed[i]}] :
     <<i, x, c>> \in {t \in (DOMAIN gm.closed) \X Others(gm, r) \X Range(RoundDeck) :
                        t[3] \in gm.players[t[2]].hand}}

\* C17: the view sent to a player shows the closed pile as a count only:
\* rooms that differ only in which cards lie in the closed pile and in the
\* other players' hands give that player the same view.
C17_ClosedPileHidden ==
  g.exists =>
    \A r \in DOMAIN g.players :
      \A g2 \in ClosedSwaps(g, r) :
        gameState(g2, g.players[r].id) = gameState(g, g.players[r].id)

\* a step on which a round ends and is scored
RoundEnds == g.exists /\ ~g.roundOver /\ g'.roundOver /\ uuids' = uuids

RECURSIVE RuleTeamDelta(_, _, _)
\* the sum of what the rules give the players at the places K that are on
\* the team
RuleTeamDelta(gm, team, K) ==
  IF K = {} THEN 0
  ELSE LET k == CHOOSE x \in K : TRUE
       IN (IF gm.players[k].team = team THEN RuleDelta(gm, k) ELSE 0)
            + RuleTeamDelta(gm, team, K \ {k})

\* C11: team scoring and mirroring.  When a round ends in a team game each
\* team's score grows by the sum of its members' deltas (winner formula for
\* the winner, non-winner formula for everyone else), and every player's own
\* score is then the score of the player's team.
C11_TeamScoring ==
  [][(RoundEnds /\ g.teamMode) =>
       /\ \A team \in {0, 1} :
            g'.teamScores[team + 1]
              = g.teamScores[team + 1] + RuleTeamDelta(g', team, DOMAIN g'.players)
       /\ \A k \in DOMAIN g'.players :
            g'.players[k].score = g'.teamScores[g'.players[k].team + 1]]_vars

\* a round has ended with both players on team 0, whose score has grown and
\* shows on both
C11_Witness ==
  /\ g.exists /\ g.teamMode /\ g.roundOver
  /\ Len(g.players) = 2
  /\ \A k \in DOMAIN g.players : g.players[k].team = 0
  /\ g.teamScores[1] > SeedScore
  /\ \A k \in DOMAIN g.players : g.players[k].score = g.teamScores[1]

\* some cumulative score has reached 151: a team's in a team game, a
\* player's otherwise
TargetReached(gm) ==
  IF gm.teamMode
    THEN \E t \in 1..2 : gm.teamScores[t] >= 151
    ELSE \E k \in DOMAIN gm.players : gm.players[k].score >= 151

\* C12: game-over decision.  Once a round is scored, and for as long as it
\* stays over, gameOver is true if and only if some player's score
\* (individual game) or some team's score (team game) is at least 151; a
\* round end that leaves every score below 151 leaves gameOver false.
C12_GameOverDecision ==
  (g.exists /\ g.roundOver) => (g.gameOver <=> TargetReached(g))

\* a round has ended on exactly 151 and the game is over
C12_Witness ==
  /\ g.exists /\ g.roundOver /\ g.gameOver
  /\ \E k \in DOMAIN g.players : g.players[k].score = 151

AllScoresZero(gm) ==
  /\ \A k \in DOMAIN gm.players : gm.players[k].score = 0
  /\ gm.teamScores = <<0, 0>>

\* C13: game-over is monotonic.  Once gameOver is true it stays true under
\* every command, continue included (it is rejected), until a newGame is
\* accepted; newGame is accepted only when gameOver is true, and after it
\* gameOver is false and every player's and team's score is zero.
C13_GameOverMonotonic ==
  [][/\ newGameCheck(g) = "ok" => g.gameOver
     /\ (g.exists /\ g.gameOver) =>
          /\ continueGameCheck(g) # "ok"
          /\ \/ g'.gameOver
             \/ /\ uuids' = uuids + 1
                /\ \E deck \in buildDeck(uuids) : g' = newGame(g, deck).g
                /\ ~g'.gameOver
                /\ AllScoresZero(g')]_vars

\* a team game that was over has been started anew
C13_Witness ==
  /\ g.exists /\ g.teamMode /\ ~g.gameOver
  /\ uuids = 2
  /\ AllScoresZero(g)

\* C14: in every reachable state and for every player, mustDiscard implies
\* canDiscard.
C14_MustDiscardImpliesCanDiscard ==
  \A k \in DOMAIN g.players : g.players[k].mustDiscard => g.players[k].canDiscard

\* in the round after a continue or a new game a player has drawn and must
\* discard
C14_Witness ==
  /\ g.exists /\ uuids = 2
  /\ AtTurn(g).mustDiscard /\ AtTurn(g).canDiscard

\* C15: in every reachable state of a room the turn index is at least 0 and
\* less than the number of players.
C15_TurnInRange == g.exists => (0 <= g.turn /\ g.turn < Len(g.players))

\* the dealer has moved on to the last player and the turn has wrapped to
\* the first
C15_Witness ==
  /\ g.exists /\ uuids = 2
  /\ Len(g.players) = 2
  /\ g.dealerIndex = 1
  /\ g.turn = 0

(* ----------------------- after the round is over ---------------------- *)

\* the answer r leaves room gm as it was, and is not the broadcast
Refused(r, gm) == r.sent # "gameState" /\ r.g = gm

\* every gameplay command any socket may send is refused in room gm
AllPlayRefused(gm) ==
  \A s \in Sockets :
    /\ Refused(drawClosed(gm, s), gm)
    /\ \A count \in 0..(Len(gm.open) + 1) : Refused(drawOpen(gm, s, count), gm)
    /\ \A index \in HandIndices(gm) :
         /\ Refused(discard(gm, s, index), gm)
         /\ Refused(discardBetween(gm, s, index), gm)
    /\ Refused(endTurn(gm, s), gm)
    /\ \A ids \in IdLists(IdPool(gm, s)) : Refused(openRun(gm, s, ids), gm)
    /\ \A targetPlayer \in Sockets, runIndex \in RunIndices(gm) :
         \A ids \in IdLists(IdPool(gm, s)) :
           Refused(addToRun(gm, s, targetPlayer, runIndex, ids), gm)
    /\ Refused(playerWentOut(gm, s), gm)

\* hands, runs, piles, turn index and scores
PlayFrame(gm) ==
  [hands |-> [k \in DOMAIN gm.players |-> gm.players[k].hand],
   runs |-> [k \in DOMAIN gm.players |-> gm.players[k].openedSets],
   scores |-> [k \in DOMAIN gm.players |-> gm.players[k].score],
   teamScores |-> gm.teamScores,
   closed |-> gm.closed, open |-> gm.open, turn |-> gm.turn]

Over(gm) == gm.exists /\ (gm.roundOver \/ gm.gameOver)

\* the step is an accepted continueGame or newGame: a deck is built
NewRoundStarted == uuids' = uuids + 1

\* the step is an accepted joinRoom of a new player, who is dealt HAND_SIZE
\* cards off the front of the closed pile; nothing else of the frame changes
NewPlayerJoined ==
  LET n == Len(g.players)
  IN /\ Len(g'.players) = n + 1
     /\ PlayFrame([g' EXCEPT !.players = SubSeq(@, 1, n), !.closed = g.closed])
          = PlayFrame(g)
     /\ g'.players[n + 1].hand = Range(Taken(g.closed, HAND_SIZE))
     /\ g'.closed = Left(g.closed, HAND_SIZE)
     /\ g'.players[n + 1].openedSets = <<>>

\* C21: no gameplay after the round or game is over.  While roundOver or
\* gameOver is true, every drawClosed, drawOpen, discard, endTurn, openRun,
\* addToRun and go-out command is refused, and hands, runs, piles, turn index
\* and scores stay as they are until an accepted continue or newGame.
C21_NoPlayWhenOver ==
  /\ [](Over(g) => AllPlayRefused(g))
  /\ [][Over(g) => (PlayFrame(g') = PlayFrame(g) \/ NewRoundStarted)]_vars

\* C21 as the code has it: the same, but an accepted joinRoom still seats a
\* new player and deals that player's hand off the closed pile.
C21_NoPlayWhenOverAmended ==
  /\ [](Over(g) => AllPlayRefused(g))
  /\ [][Over(g) => \/ PlayFrame(g') = PlayFrame(g)
                   \/ NewRoundStarted
                   \/ NewPlayerJoined]_vars

\* the round is over, the winner's turn stands, cards are left in the closed
\* pile and in a loser's hand, and the last command was refused without a word
C21_Witness ==
  /\ g.exists /\ g.roundOver
  /\ Len(g.players) = 2
  /\ Len(g.closed) >= 1
  /\ \E k \in DOMAIN g.players : g.players[k].hand # {}
  /\ sent = "nothing"
  /\ drawClosedCheck(g, AtTurn(g).id) = "over"

(* ------------------------------ melding ------------------------------- *)

\* the openRun and addToRun commands the clients send in room gm, as the
\* actions OpenRun and AddToRun draw them: every socket (target, run index),
\* with every list of ids where the checks made before the ids are read let
\* the command through, and with no id elsewhere
OpensTried(gm) ==
  UNION {{<<s, ids>> :
            ids \in (IF openRunPre(gm, s) = "ok" THEN IdLists(IdPool(gm, s)) ELSE {<<>>})} :
           s \in Sockets}

AddsTried(gm) ==
  UNION {{<<t[1], t[2], t[3], ids>> :
            ids \in (IF addToRunPre(gm, t[1], t[2], t[3]) = "ok"
                       THEN IdLists(IdPool(gm, t[1])) ELSE {<<>>})} :
           t \in Sockets \X Sockets \X RunIndices(gm)}

\* the socket is the one of the player at the turn index, who has drawn
DrewAtTurn(gm, s) == HasTurn(gm) /\ AtTurn(gm).id = s /\ AtTurn(gm).canDiscard

\* C22: only the current-turn player can meld.  An addToRun, like an openRun,
\* is accepted only when the issuer is the player at the turn index and has
\* drawn this turn, and an addToRun only when the issuer has opened a run of
\* their own this round; and in every state no player but the one at the turn
\* index has canDiscard true.
C22_OnlyTurnPlayerMelds ==
  g.exists =>
    /\ \A k \in DOMAIN g.players : g.players[k].canDiscard => k = g.turn + 1
    /\ \A t \in OpensTried(g) :
         openRun(g, t[1], t[2]).sent = "gameState" => DrewAtTurn(g, t[1])
    /\ \A t \in AddsTried(g) :
         addToRun(g, t[1], t[2], t[3], t[4]).sent = "gameState"
           => /\ DrewAtTurn(g, t[1])
              /\ AtTurn(g).opened
              /\ AtTurn(g).openedSets # <<>>

\* a player whose turn it is not has opened a run and holds a card that
\* would extend it, while the player at the turn index has drawn
C22_Witness ==
  /\ g.exists /\ ~g.roundOver
  /\ AtTurn(g).canDiscard
  /\ \E k \in DOMAIN g.players :
       /\ k # g.turn + 1
       /\ g.players[k].opened
       /\ \E c \in g.players[k].hand :
            IsReal(c) /\ validRun(Append(g.players[k].openedSets[1], c))

\* the places of the players whose socket is s, and the only such place
Seats(gm, s) == {k \in DOMAIN gm.players : gm.players[k].id = s}

Seat(gm, s) == CHOOSE k \in Seats(gm, s) : TRUE

\* what an addToRun of socket s on run number runIndex of the player of
\* socket targetPlayer may change in room gm to give room after: that run
\* takes the cards named, which leave the hand of the player of socket s
OnlyAdds(gm, after, s, targetPlayer, runIndex, ids) ==
  LET m == Seat(gm, s)
      o == Seat(gm, targetPlayer)
      added == {c \in gm.players[m].hand : c.id \in Range(ids)}
      was == gm.players[o].openedSets[runIndex + 1]
      is == after.players[o].openedSets[runIndex + 1]
  IN /\ DOMAIN after.players = DOMAIN gm.players
     /\ \A k \in DOMAIN gm.players :
          /\ after.players[k].hand =
               IF k = m THEN gm.players[k].hand \ added ELSE gm.players[k].hand
          /\ Len(after.players[k].openedSets) = Len(gm.players[k].openedSets)
          /\ \A r \in DOMAIN gm.players[k].openedSets :
               (k # o \/ r # runIndex + 1)
                 => after.players[k].openedSets[r] = gm.players[k].openedSets[r]
     /\ added # {}
     /\ Len(is) = Len(was) + Cardinality(added)
     /\ {c.id : c \in Range(is)} = {c.id : c \in Range(was)} \cup {c.id : c \in added}

\* C23: run ownership on add.  In an individual game an accepted addToRun
\* targets a run of the acting player; in a team game it targets a run of a
\* player on the acting player's team, never a run of the other team.  The
\* cards added come out of the acting player's hand, and no other hand and
\* no other run changes.
C23_RunOwnershipOnAdd ==
  \A t \in AddsTried(g) :
    LET s == t[1]
        targetPlayer == t[2]
    IN addToRun(g, s, targetPlayer, t[3], t[4]).sent = "gameState"
         => /\ Seats(g, s) # {} /\ Seats(g, targetPlayer) # {}
            /\ ~g.teamMode => targetPlayer = s
            /\ g.teamMode => g.players[Seat(g, targetPlayer)].team = g.players[Seat(g, s)].team
            /\ OnlyAdds(g, addToRun(g, s, targetPlayer, t[3], t[4]).g,
                        s, targetPlayer, t[3], t[4])

\* in a team game the player at the turn index holds a card that the server
\* lets them add to a team-mate's run
C23_Witness ==
  /\ g.exists /\ g.teamMode
  /\ \E s \in Sockets, targetPlayer \in Sockets :
       /\ s # targetPlayer
       /\ \E ids \in IdLists(IdPool(g, s)) :
            addToRunCheck(g, s, targetPlayer, 0, ids) = "ok"

\* the cards of the issuer's hand that the addToRun command t names, and
\* the run it targets
Named(gm, t) == {c \in gm.players[Seat(gm, t[1])].hand : c.id \in Range(t[4])}

Target(gm, t) == gm.players[Seat(gm, t[2])].openedSets[t[3] + 1]

\* C24: no wildcard-only top-up.  An addToRun whose cards are all wildcards
\* is never accepted, even where the run with the wildcard would pass
\* validRun; an added wildcard is accepted only together with at least one
\* real card and only when the target run holds no wildcard yet.
C24_NoWildcardOnlyTopUp ==
  \A t \in AddsTried(g) :
    addToRun(g, t[1], t[2], t[3], t[4]).sent = "gameState"
      => /\ \E c \in Named(g, t) : c.value # "2"
         /\ (\E c \in Named(g, t) : c.value = "2")
              => \A k \in DOMAIN Target(g, t) : Target(g, t)[k].value # "2"

\* the player who has drawn names the wildcard alone for a run of their own
\* that holds none and would be a valid run with it: the server refuses
C24_Witness ==
  \E t \in AddsTried(g) :
    /\ addToRunCheck(g, t[1], t[2], t[3], t[4]) = "jokerOnly"
    /\ Len(t[4]) = 1
    /\ \A k \in DOMAIN Target(g, t) : Target(g, t)[k].value # "2"
    /\ validRun(Target(g, t) \o Lookup(g.players[Seat(g, t[1])].hand, t[4]))

(* ------------------------------- turns -------------------------------- *)

\* the draws the clients send in room gm, with the server's answers
DrawsTried(gm) ==
  {drawClosed(gm, s) : s \in Sockets}
    \cup {drawOpen(gm, s, count) : s \in Sockets, count \in 0..(Len(gm.open) + 1)}

DrawsRefused(gm) == \A r \in DrawsTried(gm) : Refused(r, gm)

\* the player at the turn index has drawn this turn
HasDrawn(gm) == gm.exists /\ HasTurn(gm) /\ AtTurn(gm).canDiscard

\* an accepted draw leaves the turn where it is and the player marked as
\* having drawn, and the player so marked is refused every draw
DrawnOnce(gm) ==
  /\ \A r \in DrawsTried(gm) :
       r.sent = "gameState" => r.g.turn = gm.turn /\ HasDrawn(r.g)
  /\ HasDrawn(gm) => DrawsRefused(gm)

\* the step is an accepted endTurn, or an accepted discard that leaves the
\* round going: the server sets the turn index to (turn + 1) mod playerCount
\* (discardBetween accepts what discard accepts, with the same effect)
TurnPassed ==
  \E s \in Sockets :
    \/ endTurn(g, s).sent = "gameState" /\ g' = endTurn(g, s).g
    \/ \E index \in HandIndices(g) :
         /\ discardBetween(g, s, index).sent = "gameState"
         /\ g' = discardBetween(g, s, index).g
         /\ ~g'.roundOver

\* C25: at most one draw per turn.  Between two consecutive changes of the
\* turn index (or round starts) at most one drawClosed or drawOpen is
\* accepted: once the current player has drawn, every further draw is
\* refused until the turn index has changed or a round has started.
C25_OneDrawPerTurn ==
  /\ []DrawnOnce(g)
  /\ [][(HasDrawn(g) /\ g'.turn = g.turn /\ uuids' = uuids) => DrawsRefused(g')]_vars

\* C25 as the code has it: the same, the turn ending with an accepted
\* endTurn or discard whether or not that changes the turn index (in a room
\* of one player it stays 0).
C25_OneDrawPerTurnAmended ==
  /\ []DrawnOnce(g)
  /\ [][(HasDrawn(g) /\ g'.turn = g.turn /\ uuids' = uuids)
          => (DrawsRefused(g') \/ TurnPassed)]_vars

\* in a room of two the player who has drawn from the open pile, and has
\* cards left to draw in the closed pile, asks for one and gets no answer
C25_Witness ==
  /\ HasDrawn(g) /\ ~g.roundOver
  /\ Len(g.players) = 2
  /\ Len(g.closed) >= 1
  /\ drawClosedCheck(g, AtTurn(g).id) = "alreadyDrew"
  /\ sent = "nothing"

\* the player at the turn index may draw: the round is on and the player
\* has not drawn yet
MayDraw(gm) == gm.exists /\ HasTurn(gm) /\ ~Over(gm) /\ ~AtTurn(gm).canDiscard

\* C26: drawOpen(N) with 1 <= N <= open-pile size moves the N cards last
\* discarded (the top N) into the current player's hand, leaves the rest of
\* the open pile in its order, sets canDiscard, and sets mustDiscard exactly
\* when the open pile is empty after the draw; N < 1 or N > size is refused.
C26_DrawOpenTakesTop ==
  MayDraw(g) =>
    \A count \in -1..(Len(g.open) + 1) :
      LET r == drawOpen(g, AtTurn(g).id, count)
          n == Len(g.open)
      IN IF 1 <= count /\ count <= n
           THEN /\ r.sent = "gameState"
                /\ r.g.turn = g.turn
                /\ Len(r.g.open) = n - count
                /\ \A i \in 1..(n - count) : r.g.open[i] = g.open[i]
                /\ AtTurn(r.g).hand
                     = AtTurn(g).hand \cup {g.open[i] : i \in (n - count + 1)..n}
                /\ AtTurn(r.g).canDiscard
                /\ AtTurn(r.g).mustDiscard <=> (n - count = 0)
           ELSE Refused(r, g)

\* the player at turn has drawn off the open pile and left cards on it (a
\* closed-pile draw would have set mustDiscard): the discard is optional and
\* the hand holds the cards drawn
C26_Witness ==
  /\ HasDrawn(g) /\ ~Over(g)
  /\ ~AtTurn(g).mustDiscard
  /\ Len(g.open) >= 1
  /\ Len(g.players) = 2
  /\ Cardinality(AtTurn(g).hand) >= 2 + HAND_SIZE
  /\ AtTurn(g).openedSets = <<>>

\* the player at the turn index owes a discard in a round that is on
OwesDiscard(gm) == gm.exists /\ HasTurn(gm) /\ ~Over(gm) /\ AtTurn(gm).mustDiscard

\* an accepted drawClosed, and an accepted drawOpen that empties the open
\* pile, leave the player owing a discard
DrawOwes(gm) ==
  MayDraw(gm) =>
    /\ drawClosed(gm, AtTurn(gm).id).sent = "gameState"
         => OwesDiscard(drawClosed(gm, AtTurn(gm).id).g)
    /\ drawOpen(gm, AtTurn(gm).id, Len(gm.open)).sent = "gameState"
         => OwesDiscard(drawOpen(gm, AtTurn(gm).id, Len(gm.open)).g)

EndTurnRefused(gm) == \A s \in Sockets : Refused(endTurn(gm, s), gm)

\* the step moves one card out of the hand of the player at turn onto the top
\* of the open pile: an accepted discard
DiscardMade ==
  \E c \in AtTurn(g).hand :
    /\ g'.open = Append(g.open, c)
    /\ g'.players[g.turn + 1].hand = AtTurn(g).hand \ {c}

\* the step ends the round with the player at turn as its winner
WentOutNow ==
  g'.roundOver /\ g'.turn = g.turn /\ g'.winnerPid = AtTurn(g).pid

StillOwes == OwesDiscard(g') /\ g'.turn = g.turn

\* C27: a mandatory discard cannot be skipped.  After an accepted drawClosed
\* (or a drawOpen that empties the open pile) the turn index does not change
\* until that player has made an accepted discard; endTurn is refused while
\* mustDiscard is true, and the only other way the turn ends is the round
\* ending because the player went out.
C27_MandatoryDiscard ==
  /\ [](DrawOwes(g) /\ (OwesDiscard(g) => EndTurnRefused(g)))
  /\ [][OwesDiscard(g) => (StillOwes \/ DiscardMade \/ WentOutNow)]_vars

\* C27 with the way out that the server leaves: a continueGame, which is
\* accepted in a round that is on as well, deals a new round and sets the turn
\* index for it.
C27_MandatoryDiscardAmended ==
  /\ [](DrawOwes(g) /\ (OwesDiscard(g) => EndTurnRefused(g)))
  /\ [][OwesDiscard(g) =>
          (StillOwes \/ DiscardMade \/ WentOutNow \/ NewRoundStarted)]_vars

\* the player at turn of a room of two owes a discard and has just been
\* refused an endTurn
C27_Witness ==
  /\ OwesDiscard(g)
  /\ Len(g.players) = 2
  /\ endTurnCheck(g, AtTurn(g).id) = "mustDiscard"
  /\ Cardinality(AtTurn(g).hand) >= 2
  /\ sent = "nothing"

(* ----------------------- the redeposit ban ---------------------------- *)

\* the player at turn has drawn the only card of the open pile this turn and
\* still holds it
Restricted(gm) ==
  /\ HasDrawn(gm) /\ ~Over(gm)
  /\ AtTurn(gm).noDiscardCardId # null
  /\ \E c \in AtTurn(gm).hand : c.id = AtTurn(gm).noDiscardCardId

\* a draw restricts the card drawn exactly when it was the only card of the
\* open pile; any other draw leaves no restriction
DrawRestricts(gm) ==
  MayDraw(gm) =>
    /\ drawClosed(gm, AtTurn(gm).id).sent = "gameState"
         => AtTurn(drawClosed(gm, AtTurn(gm).id).g).noDiscardCardId = null
    /\ \A count \in 1..Len(gm.open) :
         LET r == drawOpen(gm, AtTurn(gm).id, count)
         IN /\ r.sent = "gameState"
            /\ AtTurn(r.g).noDiscardCardId
                 = IF Len(gm.open) = 1 THEN gm.open[1].id ELSE null

\* a discard by whole index is refused, the room unchanged, when the index
\* names the restricted card, and is never refused for the restriction when
\* it names another card
BanByIndex(gm) ==
  Restricted(gm) =>
    \A index \in 0..(Cardinality(AtTurn(gm).hand) - 1) :
      IF ById(AtTurn(gm).hand)[index + 1].id = AtTurn(gm).noDiscardCardId
        THEN Refused(discard(gm, AtTurn(gm).id, index), gm)
        ELSE discardCheck(gm, AtTurn(gm).id, index) # "restrictedCard"

\* the step moves the restricted card from the hand of the player at turn
\* onto the open pile
Redeposited ==
  \E c \in AtTurn(g).hand :
    /\ c.id = AtTurn(g).noDiscardCardId
    /\ g'.open = Append(g.open, c)
    /\ g'.players[g.turn + 1].hand = AtTurn(g).hand \ {c}

\* C28: the single-card redeposit ban.  If the open pile held exactly one
\* card and the current player drew it, a discard of that card in the same
\* turn is refused with the room unchanged, while a discard of any other card
\* of the hand is not blocked by this rule; a draw from a larger open pile or
\* from the closed pile creates no restriction.
C28_RedepositBan ==
  /\ [](DrawRestricts(g) /\ BanByIndex(g))
  /\ [][Restricted(g) => ~Redeposited]_vars

(* ---------------------------- the discard ----------------------------- *)

\* every discard a client may send in room gm: by a whole index, or by an
\* index between two whole ones, which takes the card at the place below
DiscardsTried(gm) ==
  {[s |-> x[1], index |-> x[2], r |-> discard(gm, x[1], x[2])] :
     x \in Sockets \X HandIndices(gm)}
  \cup {[s |-> x[1], index |-> x[2], r |-> discardBetween(gm, x[1], x[2])] :
          x \in Sockets \X HandIndices(gm)}

\* the card the index selects in the hand of the player at turn
Selected(gm, index) == ById(AtTurn(gm).hand)[index + 1]

\* C29: an accepted discard that leaves the hand non-empty moves exactly the
\* selected card from the player's hand to the top (the last place) of the
\* open pile, clears that player's mustDiscard, canDiscard and discard
\* restriction, and sets the turn index to (turn + 1) mod playerCount;
\* nothing else (other hands, runs, closed pile, scores) changes.
C29_DiscardFrame ==
  g.exists =>
    \A x \in DiscardsTried(g) :
      (x.r.sent = "gameState" /\ ~x.r.g.roundOver) =>
        /\ x.s = AtTurn(g).id
        /\ 0 <= x.index /\ x.index < Cardinality(AtTurn(g).hand)
        /\ x.r.g.open = Append(g.open, Selected(g, x.index))
        /\ x.r.g.players[g.turn + 1].hand = AtTurn(g).hand \ {Selected(g, x.index)}
        /\ x.r.g.players[g.turn + 1].hand # {}
        /\ ~x.r.g.players[g.turn + 1].mustDiscard
        /\ ~x.r.g.players[g.turn + 1].canDiscard
        /\ x.r.g.players[g.turn + 1].noDiscardCardId = null
        /\ x.r.g.turn = (g.turn + 1) % Len(g.players)
        /\ [x.r.g EXCEPT !.open = g.open, !.turn = g.turn,
                         !.players[g.turn + 1] = AtTurn(g)] = g

\* a card has been discarded onto a non-empty open pile (the deal leaves one
\* card there) in a room of two: both players hold cards, no run is opened
\* and the player now at turn has not drawn
C29_Witness ==
  /\ g.exists /\ ~Over(g)
  /\ Len(g.players) = 2
  /\ Len(g.open) >= 2
  /\ sent = "gameState"
  /\ \A k \in DOMAIN g.players :
       g.players[k].hand # {} /\ ~g.players[k].canDiscard /\ ~g.players[k].opened

\* the scores of room after are those of room gm with the round scored by
\* the rules: per player in an individual game, per team and mirrored on the
\* members in a team game
Scored(gm, after) ==
  IF gm.teamMode
    THEN /\ \A team \in {0, 1} :
              after.teamScores[team + 1]
                = gm.teamScores[team + 1] + RuleTeamDelta(after, team, DOMAIN after.players)
         /\ \A k \in DOMAIN after.players :
              after.players[k].team \in {0, 1}
                => after.players[k].score = after.teamScores[after.players[k].team + 1]
    ELSE \A k \in DOMAIN after.players :
           after.players[k].score = gm.players[k].score + RuleDelta(after, k)

\* an accepted discard of the last card of the hand ends the round with the
\* discarding player as its winner, scored and tested for the end of the
\* game, the turn index as it was
LastDiscardEndsRound(gm) ==
  gm.exists =>
    \A x \in DiscardsTried(gm) :
      (x.r.sent = "gameState" /\ Cardinality(AtTurn(gm).hand) = 1) =>
        /\ x.s = AtTurn(gm).id
        /\ x.r.g.roundOver
        /\ x.r.g.winner = AtTurn(gm).id
        /\ x.r.g.winnerPid = AtTurn(gm).pid
        /\ x.r.g.turn = gm.turn
        /\ AtTurn(x.r.g).hand = {}
        /\ x.r.g.open = Append(gm.open, Selected(gm, 0))
        /\ Scored(gm, x.r.g)
        /\ x.r.g.gameOver <=> TargetReached(x.r.g)

\* C30: discarding the last card ends the round.  An accepted discard that
\* empties the hand sets roundOver, records the discarding player as winner
\* by stable identity, runs scoring and the game-over check, and does not
\* advance the turn index; so whenever roundOver is true the recorded winner
\* is the player at the turn index and that player's hand is empty.
C30_LastDiscardEndsRound ==
  /\ LastDiscardEndsRound(g)
  /\ (g.exists /\ g.roundOver) =>
       /\ HasTurn(g)
       /\ g.winnerPid = AtTurn(g).pid
       /\ g.winner = AtTurn(g).id
       /\ AtTurn(g).hand = {}

\* the player at turn of a room of two has opened a run, holds one last card
\* and may discard it
C30_Witness ==
  /\ HasDrawn(g) /\ ~Over(g)
  /\ Len(g.players) = 2
  /\ AtTurn(g).opened
  /\ Cardinality(AtTurn(g).hand) = 1
  /\ discard(g, AtTurn(g).id, 0).sent = "gameState"

(* ----------------------------- going out ------------------------------ *)

\* socket s is the player at turn of a round that is on, has drawn this turn
\* and holds no card
MayGoOut(gm, s) ==
  /\ gm.exists /\ HasTurn(gm) /\ ~Over(gm)
  /\ AtTurn(gm).id = s
  /\ AtTurn(gm).hand = {}
  /\ AtTurn(gm).canDiscard

\* C31: the explicit go-out.  playerWentOut is accepted only from the player
\* at turn in a live round whose hand is empty and who has drawn this turn
\* (mustDiscard may still be true); it ends the round as a discard of the
\* last card does (roundOver, winner, scores, gameOver), and a go-out with a
\* non-empty hand, before drawing, or from another player is refused.
C31_ExplicitGoOut ==
  g.exists =>
    \A s \in Sockets :
      LET r == playerWentOut(g, s)
      IN IF MayGoOut(g, s)
           THEN /\ r.sent = "gameState"
                /\ r.g.roundOver
                /\ r.g.winner = AtTurn(g).id
                /\ r.g.winnerPid = AtTurn(g).pid
                /\ r.g.turn = g.turn
                /\ Scored(g, r.g)
                /\ r.g.gameOver <=> TargetReached(r.g)
                /\ PlayFrame([r.g EXCEPT !.players = g.players,
                                         !.teamScores = g.teamScores]) = PlayFrame(g)
           ELSE Refused(r, g)

\* a round has ended with the open pile empty: the winner took the whole
\* pile, melded every card held and went out while still owing the discard
C31_Witness ==
  /\ g.exists /\ g.roundOver
  /\ Len(g.players) = 2
  /\ g.open = <<>>
  /\ AtTurn(g).hand = {}
  /\ AtTurn(g).mustDiscard = FALSE
  /\ g.winnerPid = AtTurn(g).pid

(* --------------------------- opening a run ---------------------------- *)

\* the cards of the hand that the ids name
NamedCards(hand, ids) == {c \in hand : c.id \in Range(ids)}

\* the ids are three or more, each of a card of the hand, no id twice, with
\* at most one wildcard among the cards, and the cards make a valid run
RunOffered(hand, ids) ==
  /\ Len(ids) >= 3
  /\ \A k \in DOMAIN ids : \E c \in hand : c.id = ids[k]
  /\ Cardinality(Range(ids)) = Len(ids)
  /\ Cardinality({c \in NamedCards(hand, ids) : c.value = "2"}) <= 1
  /\ validRun(ById(NamedCards(hand, ids)))

\* C32: openRun is accepted only from the player at turn in a live round who
\* has drawn this turn and supplies at least 3 card ids all present in the
\* hand, with at most 1 wildcard, forming a validRun; when accepted it takes
\* exactly those cards out of the hand, appends one new run of exactly those
\* cards in normalized order to that player's runs, sets the opened flag, and
\* leaves the turn index, the piles and the other players untouched.  No
\* openRun is accepted before the draw of the turn.
C32_OpenRun ==
  g.exists =>
    \A t \in OpensTried(g) :
      LET r == openRun(g, t[1], t[2])
          p == AtTurn(g)
          q == r.g.players[g.turn + 1]
      IN IF DrewAtTurn(g, t[1]) /\ ~Over(g) /\ RunOffered(p.hand, t[2])
           THEN /\ r.sent = "gameState"
                /\ q.hand = p.hand \ NamedCards(p.hand, t[2])
                /\ Len(q.openedSets) = Len(p.openedSets) + 1
                /\ \A k \in DOMAIN p.openedSets : q.openedSets[k] = p.openedSets[k]
                /\ Len(q.openedSets[Len(q.openedSets)]) = Len(t[2])
                /\ {c.id : c \in Range(q.openedSets[Len(q.openedSets)])} = Range(t[2])
                /\ q.openedSets[Len(q.openedSets)]
                     = normalizeRun(ById(NamedCards(p.hand, t[2])))
                /\ q.opened
                /\ [r.g EXCEPT !.players[g.turn + 1] =
                                 [@ EXCEPT !.hand = p.hand, !.openedSets = p.openedSets,
                                           !.opened = p.opened]] = g
           ELSE Refused(r, g)

\* the player at turn has drawn, has opened one run and still holds cards
C32_Witness ==
  /\ HasDrawn(g) /\ ~Over(g)
  /\ AtTurn(g).opened
  /\ Len(AtTurn(g).openedSets) = 1
  /\ AtTurn(g).hand # {}
  /\ sent = "gameState"

(* -------------------------- the next round ---------------------------- *)

\* the step is an accepted continueGame: a deck is built for a room whose
\* game is not over
ContinueAccepted == g.exists /\ ~g.gameOver /\ uuids' = uuids + 1

\* the room after the step holds a fresh deck dealt out: HAND_SIZE cards to
\* every player, one card face up, the rest closed
FreshDeal ==
  /\ \A k \in DOMAIN g'.players : Cardinality(g'.players[k].hand) = HAND_SIZE
  /\ Len(g'.open) = 1
  /\ Len(g'.closed) = DeckSize - 1 - HAND_SIZE * Len(g'.players)
  /\ {c.id : c \in Range(AllCards(g'))} = {c.id : c \in Range(UnshuffledDeck(uuids))}
  /\ Len(AllCards(g')) = DeckSize

\* runs, flags, round end and winner are reset by the step and the scores
\* are kept
RoundReset ==
  /\ Len(g'.players) = Len(g.players)
  /\ \A k \in DOMAIN g'.players :
       /\ g'.players[k].openedSets = <<>>
       /\ ~g'.players[k].opened
       /\ ~g'.players[k].mustDiscard
       /\ ~g'.players[k].canDiscard
       /\ g'.players[k].score = g.players[k].score
  /\ ~g'.roundOver
  /\ g'.winner = null /\ g'.winnerPid = null
  /\ g'.teamScores = g.teamScores

RestrictionsReset == \A k \in DOMAIN g'.players : g'.players[k].noDiscardCardId = null

\* C33: start of the next round.  An accepted continue (game not over) deals
\* a fresh deck so that every player holds exactly HAND_SIZE cards, the open
\* pile holds exactly 1 card and the closed pile the rest; every player's
\* runs are emptied and opened, mustDiscard, canDiscard and the single-card
\* discard restriction are all reset; roundOver and winner are cleared; and
\* every cumulative score (player and team) is unchanged.
C33_NextRound ==
  [][ContinueAccepted => (FreshDeal /\ RoundReset /\ RestrictionsReset)]_vars

\* the same without the discard restriction, which continueGame leaves as it
\* finds it
C33_NextRoundButRestriction == [][ContinueAccepted => (FreshDeal /\ RoundReset)]_vars

(* ---------------------------- the rotation ---------------------------- *)

\* the step is an accepted continueGame or newGame: a deck is built for a
\* room that exists
RoundBegun == g.exists /\ uuids' = uuids + 1

\* the player the dealer index makes the starter of the round
Starter(gm) == (gm.dealerIndex + 1) % Len(gm.players)

\* the step moves the dealer index on by one place and gives the turn to the
\* player after the dealer, the player list as it was
Rotated ==
  /\ Len(g'.players) = Len(g.players)
  /\ g'.dealerIndex = (g.dealerIndex + 1) % Len(g.players)
  /\ g'.turn = (g'.dealerIndex + 1) % Len(g.players)
  /\ g'.turn = (Starter(g) + 1) % Len(g.players)

RECURSIVE Starters(_, _, _)
\* the turn indices with which the next n rounds of room gm start, each begun
\* by the command the server accepts (newGame once the game is over,
\* continueGame otherwise) with deck number d, d + 1, ...
Starters(gm, n, d) ==
  IF n = 0 THEN <<>>
  ELSE LET begun == IF gm.gameOver THEN newGame(gm, UnshuffledDeck(d)).g
                    ELSE continueGame(gm, UnshuffledDeck(d)).g
       IN <<begun.turn>> \o Starters(begun, n - 1, d + 1)

\* over playerCount rounds in a row every player starts one round, and each
\* round is started by the player after the starter of the round before
EachStartsOnce(gm) ==
  gm.exists =>
    LET n == Len(gm.players)
        st == Starters(gm, n + 1, uuids)
    IN /\ {st[i] : i \in 1..n} = 0..(n - 1)
       /\ \A i \in 1..n : st[i + 1] = (st[i] + 1) % n

ScoresKept ==
  /\ g'.teamScores = g.teamScores
  /\ \A k \in DOMAIN g.players : g'.players[k].score = g.players[k].score

\* the step is an accepted newGame: every score is set to zero
NewGameReset == g.gameOver /\ uuids' = uuids + 1 /\ AllScoresZero(g')

\* C35: scoring happens exactly once per finished round and nowhere else.
\* Player and team scores change only in the step in which roundOver goes
\* from false to true, where the round is scored, or by newGame's reset;
\* draws, melds, non-final discards, endTurn, join and continue never change
\* a score, and between a round end and the next continue or newGame no
\* second scoring occurs.
C35_ScoredOncePerRound ==
  [][g.exists =>
       /\ Len(g'.players) >= Len(g.players)
       /\ IF RoundEnds THEN Scored(g, g') ELSE ScoresKept \/ NewGameReset]_vars

\* a round of a team game dealt by continueGame has ended and has been
\* scored
C35_Witness ==
  /\ g.exists /\ g.teamMode /\ g.roundOver
  /\ Len(g.players) = 2
  /\ uuids = 2
  /\ g.teamScores # <<0, 0>>
  /\ g.teamScores # <<SeedScore, 0>>

(* ------------------------------ the runs ------------------------------ *)

Ids(cards) == {c.id : c \in cards}

\* the ids of the cards that lie in hands and piles of room gm
LooseIds(gm) ==
  UNION {Ids(gm.players[k].hand) : k \in DOMAIN gm.players}
    \cup Ids(Range(gm.closed)) \cup Ids(Range(gm.open))

\* the ids of the cards that lie in runs of room gm
MeldedIds(gm) ==
  UNION {UNION {Ids(Range(gm.players[k].openedSets[i])) :
                  i \in DOMAIN gm.players[k].openedSets} : k \in DOMAIN gm.players}

\* the step keeps every run of every player at its place in the player's
\* list, with every card it held
RunsGrow ==
  \A k \in DOMAIN g.players :
    /\ Len(g'.players[k].openedSets) >= Len(g.players[k].openedSets)
    /\ \A i \in DOMAIN g.players[k].openedSets :
         Ids(Range(g.players[k].openedSets[i]))
           \subseteq Ids(Range(g'.players[k].openedSets[i]))

\* C36: runs only grow within a round.  Between two round starts the list
\* of runs of each player never shrinks and never reorders, and the set of
\* card ids in each existing run never loses an id; a card that has entered
\* a run does not return to a hand or a pile until the deck is rebuilt by
\* continue or newGame.
C36_RunsOnlyGrow ==
  [][(g.exists /\ uuids' = uuids) =>
       /\ Len(g'.players) >= Len(g.players)
       /\ RunsGrow
       /\ MeldedIds(g) \cap LooseIds(g') = {}]_vars

\* a run on the table holds four cards or more in a round that is on
C36_Witness ==
  /\ g.exists /\ ~Over(g)
  /\ \E k \in DOMAIN g.players :
       \E i \in DOMAIN g.players[k].openedSets : Len(g.players[k].openedSets[i]) >= 4

(* ------------------------ invalid selections -------------------------- *)

\* the longest list of ids tried against the selection checks
MaxBadIds == 3

\* every id of a card of the room, and one no card has
AllIds(gm) == LooseIds(gm) \cup MeldedIds(gm) \cup {0}

\* the lists of up to MaxBadIds ids that name an id outside the hand of the
\* player of socket s, or name an id twice
BadLists(gm, s) ==
  LET hand == IF FindById(gm, s) = 0 THEN {} ELSE Ids(gm.players[FindById(gm, s)].hand)
  IN {ids \in UNION {[1..n -> AllIds(gm)] : n \in 1..MaxBadIds} :
        \/ \E k \in DOMAIN ids : ids[k] \notin hand
        \/ Cardinality(Range(ids)) < Len(ids)}

\* no run of room gm holds a card id twice
NoCopies(gm) ==
  \A k \in DOMAIN gm.players :
    \A i \in DOMAIN gm.players[k].openedSets :
      Cardinality(Ids(Range(gm.players[k].openedSets[i])))
        = Len(gm.players[k].openedSets[i])

\* C37: invalid card selections are rejected.  An openRun or addToRun whose
\* id list holds an id that is not in the acting player's hand, or the same
\* id more than once (real card or wildcard), is refused and leaves hands and
\* runs unchanged; a repeated id never places two copies of one card into a
\* run.  (Every bad list is tried where the checks made before the ids are
\* read let the command through, one elsewhere.)
C37_BadSelectionsRefused ==
  g.exists =>
    /\ NoCopies(g)
    /\ \A s \in Sockets :
         \A ids \in (IF openRunPre(g, s) = "ok" THEN BadLists(g, s) ELSE {<<0, 0, 0>>}) :
           Refused(openRun(g, s, ids), g)
    /\ \A s \in Sockets, targetPlayer \in Sockets, runIndex \in RunIndices(g) :
         \A ids \in (IF addToRunPre(g, s, targetPlayer, runIndex) = "ok"
                       THEN BadLists(g, s) ELSE {<<0, 0>>}) :
           Refused(addToRun(g, s, targetPlayer, runIndex, ids), g)

\* the player at turn may add a card of the hand to a run of their own, and
\* the same id sent twice is refused as no valid run
C37_Witness ==
  /\ HasDrawn(g) /\ ~Over(g)
  /\ \E c \in AtTurn(g).hand :
       /\ addToRunCheck(g, AtTurn(g).id, AtTurn(g).id, 0, <<c.id>>) = "ok"
       /\ addToRunCheck(g, AtTurn(g).id, AtTurn(g).id, 0, <<c.id, c.id>>) = "invalidRun"

(* --------------------------- no stuck turn ---------------------------- *)

\* some openRun or addToRun of the player at turn would be accepted
SomeMeldAccepted(gm) ==
  \/ \E ids \in IdLists(IdPool(gm, AtTurn(gm).id)) :
       openRun(gm, AtTurn(gm).id, ids).sent = "gameState"
  \/ \E targetPlayer \in Sockets, runIndex \in RunIndices(gm) :
       \E ids \in IdLists(IdPool(gm, AtTurn(gm).id)) :
         addToRun(gm, AtTurn(gm).id, targetPlayer, runIndex, ids).sent = "gameState"

\* some command of the player at turn would be accepted: a discard of some
\* hand index, endTurn, a meld, or the go-out
SomeCommandAccepted(gm) ==
  \/ \E index \in 0..(Cardinality(AtTurn(gm).hand) - 1) :
       discard(gm, AtTurn(gm).id, index).sent = "gameState"
  \/ endTurn(gm, AtTurn(gm).id).sent = "gameState"
  \/ playerWentOut(gm, AtTurn(gm).id).sent = "gameState"
  \/ SomeMeldAccepted(gm)

\* the only card the player at turn holds is the one the restriction bars
HoldsOnlyBarred(gm) ==
  \E c \in AtTurn(gm).hand :
    AtTurn(gm).hand = {c} /\ c.id = AtTurn(gm).noDiscardCardId

\* C38: no stuck turn after drawing.  In every state of a live round in which
\* the player at turn has drawn, some command of that player would be
\* accepted (a discard of some hand index, endTurn, some openRun, some
\* addToRun, or the go-out); the gate blocks discard and endTurn only while
\* some openRun or addToRun would be accepted, and a player whose only card is
\* the one barred by the single-card restriction is never left with
\* mustDiscard true.
C38_NoStuckTurn ==
  (HasDrawn(g) /\ ~Over(g)) =>
    /\ SomeCommandAccepted(g)
    /\ mustPlayAllMeldsNow(g, AtTurn(g)) => SomeMeldAccepted(g)
    /\ ~(HoldsOnlyBarred(g) /\ AtTurn(g).mustDiscard)

(* ----------------------------- a draw is possible ----------------------------- *)

\* the player at turn of a live round has not drawn and the closed pile is used up
MayDrawOpenOnly(gm) == MayDraw(gm) /\ Len(gm.closed) = 0

\* C39: in every reachable state of a live round in which the player at turn
\* has not drawn yet, the open pile holds at least one card, and drawOpen with
\* count 1 from that player is accepted and hands over the top card, whether
\* or not the closed pile is empty.
C39_DrawAlwaysPossible ==
  MayDraw(g) =>
    /\ Len(g.open) >= 1
    /\ LET r == drawOpen(g, AtTurn(g).id, 1)
       IN /\ r.sent = "gameState"
          /\ g.open[Len(g.open)] \in AtTurn(r.g).hand
          /\ AtTurn(r.g).canDiscard

\* a turn of a live round begins with the closed pile used up
C39_Witness ==
  /\ MayDrawOpenOnly(g)
  /\ Len(g.open) >= 1
  /\ drawOpen(g, AtTurn(g).id, 1).sent = "gameState"

(* ----------------------- the restriction and its turn ----------------------- *)

\* a discard of the player at turn would be checked against a restriction
DiscardChecked(gm) ==
  HasDrawn(gm) /\ ~Over(gm) /\ AtTurn(gm).noDiscardCardId # null

\* the step is the open-pile draw of this turn that sets the restriction
SetByThisDraw ==
  /\ MayDraw(g)
  /\ g'.turn = g.turn
  /\ AtTurn(g').id = AtTurn(g).id
  /\ Len(g.open) = 1
  /\ g'.open = <<>>
  /\ AtTurn(g').noDiscardCardId = g.open[1].id

\* the step stays within the turn in which the restriction was set
KeptWithinTurn ==
  /\ DiscardChecked(g)
  /\ uuids' = uuids
  /\ g'.turn = g.turn
  /\ AtTurn(g').id = AtTurn(g).id
  /\ AtTurn(g').noDiscardCardId = AtTurn(g).noDiscardCardId

\* a draw of the player at turn replaces whatever restriction a former turn
\* or round left behind
DrawReplaces(gm) ==
  MayDraw(gm) =>
    /\ drawClosed(gm, AtTurn(gm).id).sent = "gameState"
         => AtTurn(drawClosed(gm, AtTurn(gm).id).g).noDiscardCardId = null
    /\ \A count \in 1..Len(gm.open) :
         AtTurn(drawOpen(gm, AtTurn(gm).id, count).g).noDiscardCardId
           \in {null} \cup {c.id : c \in Range(gm.open)}

\* C40: the restriction never outlives its turn: whenever a discard of the
\* player at turn can be checked against a restriction, the restricted id was
\* set by the open-pile draw of that same turn, and a restriction left behind
\* by a former turn or round is replaced by the player's next draw.
C40_RestrictionOfThisTurn ==
  /\ []DrawReplaces(g)
  /\ [][DiscardChecked(g') => (SetByThisDraw \/ KeptWithinTurn)]_vars

\* a turn begins with a restriction left behind by a former round, and the
\* player's draw from the closed pile clears it
C40_Witness ==
  /\ MayDraw(g)
  /\ uuids >= 2
  /\ AtTurn(g).noDiscardCardId # null
  /\ drawClosed(g, AtTurn(g).id).sent = "gameState"
  /\ AtTurn(drawClosed(g, AtTurn(g).id).g).noDiscardCardId = null

====
